---- MODULE Spec2Model ----
(***************************************************************************)
(* Synchronization and translation pipeline of the Duckov Mod Manager:     *)
(* the DeepL translation client (TranslationService: two cache tiers, rate *)
(* limiter, retry wrapper), the persistent translations table (Database)   *)
(* and the sync orchestrator (ModService).  Times are milliseconds.        *)
(***************************************************************************)
EXTENDS Integers, Sequences, FiniteSets, TLC

(***************************************************************************)
(* Program constants                                                       *)
(***************************************************************************)
MIN_REQUEST_INTERVAL == 1000
MAX_REQUESTS_PER_MINUTE == 50
MAX_REQUESTS_PER_SECOND == 45
MinuteMs == 60000
SecondMs == 1000
DayMs == 86400000
\* NodeCache stdTTL: 3600 seconds
StdTTLMs == 3600000
\* TRANSLATION_CACHE_TTL_DAYS, default '7'
TRANSLATION_CACHE_TTL_DAYS == 7
\* retryWithBackoff: maxRetries = 3, baseDelay = 1000
MAX_RETRIES == 3
BASE_DELAY == 1000

None == "none"
Auto == "auto"
Absent == [absent |-> TRUE]

(***************************************************************************)
(* Bounds of the model                                                     *)
(***************************************************************************)
\* number of translation requests one run of the limiter model issues
MaxRequests == 104

\* clock values at which the first request may arrive
StartTimes == {100000, 100750}
\* think time of the caller between the return of one request and the next
Paces == {0, 300, 1500}
\* lateness of a timer (setTimeout never fires early)
Lags == {0, 7}
\* one longer idle period of the caller
Idles == {59000, 60000, 60001}

\* operations (requests, clock advances, cache clears, restarts) in one run of
\* the client model
MaxOps == 3
\* the clock is not advanced beyond this value
MaxClock == 1500000000

\* sync passes in one run of the orchestrator model
MaxPasses == 2
\* catalogs of up to this many identifiers are synced repeatedly
SmallCatalog == 4
\* fetches of a batch that fail in one pass
MaxFailedBatches == 1
\* calls of the Database by its callers in the store specification
MaxStoreOps == 4
\* statements of the Database that are waiting at the same time
MaxInflight == 2
\* revisions the remote side publishes
MaxRevisions == 1

VARIABLES
    now,                    \* Date.now()
    lastRequestTime,        \* TranslationService.lastRequestTime
    requestCountPerMinute,  \* TranslationService.requestCountPerMinute
    requestCountPerSecond,  \* TranslationService.requestCountPerSecond
    lastSecondTimestamp,    \* TranslationService.lastSecondTimestamp
    callLog,                \* start times of the remote calls, in order
    lastWait,               \* which waits the last waitForRateLimit made
    pace, lag, idled,       \* the caller's pacing and the timers' lateness
    memCache,               \* TranslationService.cache (NodeCache): key -> [value, exp]
    translations,           \* the translations table: its rows, in order of insertion
    hasDatabase,            \* whether the constructor was given a Database
    inflight,               \* statements handed to sqlite3 that have not run yet
    reqs,                   \* calls of translate and translateBatch that have not
                            \* returned, when callers do not wait for each other
    last,                   \* what the last operation of the client did
    ops,                    \* operations so far
    mods,                   \* the mods table: id -> row
    withdrawn,              \* Steam: identifiers whose details come back with result 9
    remoteRev,              \* Steam: revision of the items' texts
    remoteUpdatedAt,        \* Steam: time_updated of the items, seconds
    nIds,                   \* the local scan finds the identifiers 1..nIds
    syncPc,                 \* position of syncModsFromWorkshop
    batchStart,             \* i of the batch loop
    pendFrom, pendTo,       \* workshopItems not yet processed: identifiers pendFrom..pendTo
    synced,                 \* syncedMods
    errors,                 \* errors
    fetchLog,               \* the calls of getPublishedFileDetails of this pass
    sent,                   \* the calls of translateModContent of this pass: the item's
                            \* identifier and which of its texts stayed untranslated
    pass,                   \* the pass in progress: number, backend, start time, calls before
    prevPass                \* the pass that finished last, and whether anything touched
                            \* the remote side or the table since

limiterVars == <<lastRequestTime, requestCountPerMinute, requestCountPerSecond,
                 lastSecondTimestamp>>
paceVars == <<pace, idled>>
cacheVars == <<memCache, translations, hasDatabase, inflight, reqs>>
clientVars == <<last, ops>>
remoteVars == <<withdrawn, remoteRev, remoteUpdatedAt>>
syncVars == <<mods, remoteVars, nIds, syncPc, batchStart, pendFrom, pendTo, synced, errors,
              fetchLog, sent, pass, prevPass>>

vars == <<now, limiterVars, callLog, lastWait, lag, paceVars, cacheVars, clientVars,
          syncVars>>

\* no call of the translation service is in progress
NoReqs == << >>

\* no sync pass has run and none is running
NoPass == [n |-> 0, mode |-> "up", t |-> 0, calls |-> 0, scanned |-> TRUE]
NoPrevPass == [n |-> 0, mods |-> << >>, t |-> 0, clean |-> FALSE, undisturbed |-> FALSE]
SyncIdle ==
    /\ mods = << >>
    /\ withdrawn = {}
    /\ remoteRev = 0
    /\ remoteUpdatedAt = 0
    /\ nIds = 0
    /\ syncPc = "idle"
    /\ batchStart = 0
    /\ pendFrom = 0
    /\ pendTo = 0
    /\ synced = << >>
    /\ errors = << >>
    /\ fetchLog = << >>
    /\ sent = {}
    /\ pass = NoPass
    /\ prevPass = NoPrevPass

(***************************************************************************)
(* TranslationService.waitForRateLimit                                     *)
(***************************************************************************)
\* line 336: the per-second counter restarts when a new second is entered
SecondRollover(t, sec) == (t \div SecondMs) # sec

\* line 342: the per-minute counter restarts after more than a minute idle
MinuteRollover(tslr) == tslr > MinuteMs

\* line 347
SecondLimitReached(cps) == cps >= MAX_REQUESTS_PER_SECOND

MinuteLimitReached_Off(cpm) == cpm >= MAX_REQUESTS_PER_MINUTE + MAX_REQUESTS_PER_MINUTE

\* line 356
MinuteLimitReached(cpm) == cpm >= MAX_REQUESTS_PER_MINUTE

\* line 366
IntervalTooShort(tslr) == tslr < MIN_REQUEST_INTERVAL

\* A timer of `delay` ms started at t fires at t + delay or a little later.
AfterTimeout(t, delay, lateness) == t + delay + lateness

\* The whole of waitForRateLimit for one caller at a time.  rl is the
\* limiter [last, cpm, cps, sec], t the time of entry.  The result is the
\* limiter after the call, the time of return and the waits that were made.
WaitForRateLimit(rl, t, lateness) ==
    LET tslr == t - rl.last                                   \* line 332
        roll == SecondRollover(t, rl.sec)
        sec0 == IF roll THEN t \div SecondMs ELSE rl.sec      \* line 337
        cps0 == IF roll THEN 0 ELSE rl.cps                    \* line 338
        cpm0 == IF MinuteRollover(tslr) THEN 0 ELSE rl.cpm    \* line 343
        \* lines 347-353
        wS   == SecondLimitReached(cps0)
        t1   == IF wS THEN AfterTimeout(t, SecondMs - (t % SecondMs), lateness) ELSE t
        sec1 == IF wS THEN t1 \div SecondMs ELSE sec0
        cps1 == IF wS THEN 0 ELSE cps0
        \* lines 356-363
        wM   == MinuteLimitReached(cpm0) /\ (MinuteMs - tslr) > 0
        t2   == IF wM THEN AfterTimeout(t1, MinuteMs - tslr, lateness) ELSE t1
        cpm1 == IF wM THEN 0 ELSE cpm0
        \* lines 366-369
        wI   == IntervalTooShort(tslr)
        t3   == IF wI THEN AfterTimeout(t2, MIN_REQUEST_INTERVAL - tslr, lateness) ELSE t2
    IN  [last |-> t3,                                         \* line 371
         cpm  |-> cpm1 + 1,                                   \* line 372
         cps  |-> cps1 + 1,                                   \* line 373
         sec  |-> sec1,
         t    |-> t3,
         waits |-> [second |-> wS, minute |-> wM, interval |-> wI]]

Limiter == [last |-> lastRequestTime, cpm |-> requestCountPerMinute,
            cps |-> requestCountPerSecond, sec |-> lastSecondTimestamp]

NoWait == [second |-> FALSE, minute |-> FALSE, interval |-> FALSE]

(***************************************************************************)
(* SpecRate: translation requests that miss both caches, issued one at a   *)
(* time; each makes one pass through waitForRateLimit and then starts its  *)
(* remote call.                                                            *)
(***************************************************************************)
InitRate ==
    /\ now \in StartTimes
    /\ lastRequestTime = 0
    /\ requestCountPerMinute = 0
    /\ requestCountPerSecond = 0
    /\ lastSecondTimestamp = 0
    /\ callLog = << >>
    /\ lastWait = NoWait
    /\ pace \in Paces
    /\ lag \in Lags
    /\ idled = FALSE
    /\ memCache = << >>
    /\ translations = << >>
    /\ hasDatabase = FALSE
    /\ inflight = {}
    /\ reqs = NoReqs
    /\ last = [op |-> "none"]
    /\ ops = 0
    /\ SyncIdle

\* performTranslation, lines 420-425: the limiter, then the remote call
IssueRequest(arrival) ==
    LET Issued(r) ==
            /\ lastRequestTime' = r.last
            /\ requestCountPerMinute' = r.cpm
            /\ requestCountPerSecond' = r.cps
            /\ lastSecondTimestamp' = r.sec
            /\ now' = r.t
            /\ callLog' = Append(callLog, r.t)
            /\ lastWait' = r.waits
    IN  /\ Len(callLog) < MaxRequests
        /\ Issued(WaitForRateLimit(Limiter, arrival, lag))
        /\ UNCHANGED <<cacheVars, clientVars, syncVars>>

PacedRequest ==
    /\ IssueRequest(now + pace)
    /\ UNCHANGED <<pace, lag, idled>>

RequestAfterIdle ==
    /\ ~idled
    /\ \E g \in Idles : IssueRequest(now + g)
    /\ idled' = TRUE
    /\ UNCHANGED <<pace, lag>>

NextRate == PacedRequest \/ RequestAfterIdle

SpecRate == InitRate /\ [][NextRate]_vars

(***************************************************************************)
(* C1: with requests issued one at a time, no more than 45 remote calls    *)
(* start within any rolling 1-second window and no more than 50 within any *)
(* rolling 60-second window.  Every window is a window that ends at the    *)
(* latest call of some reachable state, windows taken closed.              *)
(***************************************************************************)
StartedWithin(w) ==
    Cardinality({j \in 1..Len(callLog) : callLog[Len(callLog)] - callLog[j] <= w})

C1_RateCeiling ==
    callLog # << >> =>
        /\ StartedWithin(SecondMs) <= MAX_REQUESTS_PER_SECOND
        /\ StartedWithin(MinuteMs) <= MAX_REQUESTS_PER_MINUTE

\* the 51st request in a row and later ones were held back by the per-minute budget
C1_Witness ==
    /\ Len(callLog) > MAX_REQUESTS_PER_MINUTE
    /\ lastWait.minute
    /\ StartedWithin(MinuteMs) <= MAX_REQUESTS_PER_MINUTE

\* the calls before the latest one that started within the window w that
\* ends at the call before the latest one; the latest request arrived after
\* that call, so no more calls than these started in the window before it
StartedBeforeLatest(w) ==
    Cardinality({j \in 1..(Len(callLog) - 1) :
                    callLog[Len(callLog) - 1] - callLog[j] < w})

\* C28: a request is made to wait for the per-minute budget only if 50
\* remote calls started within the 60 seconds before it.
C28_MinuteWaitOnlyWhenBudgetUsed ==
    (callLog # << >> /\ lastWait.minute) =>
        StartedBeforeLatest(MinuteMs) >= MAX_REQUESTS_PER_MINUTE

(***************************************************************************)
(* The memory cache (NodeCache, stdTTL 3600 s)                             *)
(***************************************************************************)
\* translate line 280: `${text}_${sourceLang || 'auto'}_${targetLang}`
CacheKey(text, src, tgt) == <<text, IF src = None THEN Auto ELSE src, tgt>>

\* cache.get: the value of an entry that has not expired
MemLive(mem, key, t) == key \in DOMAIN mem /\ mem[key].exp >= t

MemGet_NeverHits(mem, key, t) == Absent

MemGet(mem, key, t) == IF MemLive(mem, key, t) THEN mem[key].value ELSE Absent

\* cache.get deletes the entry it finds expired
MemAfterGet(mem, key, t) ==
    IF key \in DOMAIN mem /\ ~MemLive(mem, key, t)
    THEN [k \in DOMAIN mem \ {key} |-> mem[k]]
    ELSE mem

\* cache.set with the standard TTL
MemSet_Dropped(mem, key, value, t) == mem

MemSet(mem, key, value, t) ==
    [k \in DOMAIN mem \cup {key} |->
        IF k = key THEN [value |-> value, exp |-> t + StdTTLMs] ELSE mem[k]]

(***************************************************************************)
(* The translations table (Database)                                       *)
(***************************************************************************)
\* expires_at holds toISOString() text, 'YYYY-MM-DDTHH:MM:SS.sssZ', and is
\* compared, as text, with CURRENT_TIMESTAMP, 'YYYY-MM-DD HH:MM:SS': the
\* dates decide, and on equal dates 'T' sorts after ' '.
IsoAfterTimestamp(exp, t) == (exp \div DayMs) >= (t \div DayMs)

IsoBeforeTimestamp(exp, t) == (exp \div DayMs) < (t \div DayMs)

\* the UNIQUE(original_text, source_lang, target_lang) constraint, line 67
SameKey(row, text, src, tgt) ==
    row.originalText = text /\ row.sourceLang = src /\ row.targetLang = tgt

\* Database.getTranslation: SELECT ... WHERE original_text = ? AND source_lang = ?
\* AND target_lang = ? AND expires_at > CURRENT_TIMESTAMP; db.get yields the
\* first row of the result.  The table is the sequence of its rows.
GetTranslation(db, text, src, tgt, t) ==
    LET hits == {i \in 1..Len(db) : SameKey(db[i], text, src, tgt)
                                    /\ IsoAfterTimestamp(db[i].exp, t)}
        first == CHOOSE i \in hits : \A j \in hits : i <= j
    IN  IF hits # {}
        THEN [originalText |-> db[first].originalText,
              translatedText |-> db[first].translatedText,
              sourceLang |-> db[first].sourceLang, targetLang |-> db[first].targetLang,
              expiresAt |-> db[first].exp]
        ELSE Absent

\* the row saveTranslation binds to the statement
RowOf(tr) ==
    [originalText |-> tr.originalText, sourceLang |-> tr.sourceLang,
     targetLang |-> tr.targetLang, translatedText |-> tr.translatedText,
     exp |-> tr.expiresAt]

SaveTranslation_Insert(db, tr) == Append(db, RowOf(tr))

\* Database.saveTranslation: INSERT OR REPLACE deletes the rows that conflict
\* with the new one under the UNIQUE constraint and inserts the new row
SaveTranslation(db, tr) ==
    LET Other(row) == ~SameKey(row, tr.originalText, tr.sourceLang, tr.targetLang)
    IN  Append(SelectSeq(db, Other), RowOf(tr))

CleanExpiredTranslations_All(db, t) == << >>

\* Database.cleanExpiredTranslations: DELETE ... WHERE expires_at < CURRENT_TIMESTAMP
CleanExpiredTranslations(db, t) ==
    LET Kept(row) == ~IsoBeforeTimestamp(row.exp, t)
    IN  SelectSeq(db, Kept)

(***************************************************************************)
(* The remote call and the retry wrapper                                   *)
(***************************************************************************)
\* detected_source_language?.toLowerCase()
ToLowerCase(code) ==
    CASE code = "ZH" -> "zh" [] code = "JA" -> "ja" [] code = "EN" -> "en"
      [] code = "KO" -> "ko" [] OTHER -> code

\* What the backend answers to one POST: status 200 with one translation per
\* text sent (text "" when the text is missing), an HTTP error status, or
\* status 0 for no response at all.
OkAnswer(text, detected) ==
    [status |-> 200, items |-> <<[text |-> text, detected |-> detected]>>]
ErrAnswer(status) == [status |-> status, items |-> << >>]

PlainError(message) == [isAxiosError |-> FALSE, status |-> None, message |-> message]

\* error.response?.status in a message: no response, no status
StatusText(status) == IF status = 0 THEN "undefined" ELSE ToString(status)

\* lines 449-471 and 637-658: every error of the call is thrown again as a new Error
RethrowAsPlainError(answer) ==
    IF answer.status = 200
    THEN PlainError("request failed")                                    \* lines 470, 657
    ELSE PlainError(CASE answer.status = 403 -> "authentication failed"  \* lines 457, 645
                      [] answer.status = 456 -> "quota exceeded"         \* lines 459, 647
                      [] answer.status = 429 -> "rate limit exceeded"    \* lines 461, 649
                      [] OTHER -> "DeepL API error (" \o StatusText(answer.status)
                                     \o ")")                             \* lines 464, 652

ResultOfItem(item) ==
    [translatedText |-> item.text, detectedLanguage |-> ToLowerCase(item.detected)]

\* the operation performTranslation hands to retryWithBackoff, lines 423-472
Operation(answer) ==
    IF answer.status = 200 /\ answer.items # << >> /\ answer.items[1].text # ""
    THEN [ok |-> TRUE, value |-> ResultOfItem(answer.items[1]), cached |-> 0]
    ELSE [ok |-> FALSE, error |-> RethrowAsPlainError(answer), cached |-> 0]

\* the operation translateBatch hands to retryWithBackoff, lines 605-659;
\* cached is the number of leading results that cache.set has stored
BatchOperation(answer) ==
    LET n == Len(answer.items)
        bad == {i \in 1..n : answer.items[i].text = ""}
        firstBad == IF bad = {} THEN n + 1 ELSE CHOOSE i \in bad : \A j \in bad : i <= j
    IN  IF answer.status = 200 /\ n > 0 /\ bad = {}
        THEN [ok |-> TRUE, value |-> [i \in 1..n |-> ResultOfItem(answer.items[i])],
              cached |-> n]
        ELSE [ok |-> FALSE, error |-> RethrowAsPlainError(answer),
              cached |-> IF answer.status = 200 THEN firstBad - 1 ELSE 0]

IsRateLimit_AnyError(error) == TRUE

\* line 390
IsRateLimit(error) == error.isAxiosError /\ error.status = 429

GiveUp_Never(error, attempt) == FALSE

\* line 392: the error is thrown to the caller
GiveUp(error, attempt) == ~IsRateLimit(error) \/ attempt = MAX_RETRIES

AnswerAt(script, i) == script[IF i <= Len(script) THEN i ELSE Len(script)]

RECURSIVE Pow2(_)
Pow2(n) == IF n = 0 THEN 1 ELSE 2 * Pow2(n - 1)

\* retryWithBackoff, lines 376-404, around the single (batch = FALSE) or the
\* batch operation; times are the start times of the attempts
RECURSIVE RetryWithBackoff(_, _, _, _, _, _, _)
RetryWithBackoff(batch, script, attempt, t, times, delays, lateness) ==
    LET answer == AnswerAt(script, attempt + 1)
        r == IF batch THEN BatchOperation(answer) ELSE Operation(answer)
        started == Append(times, t)
    IN  IF r.ok
        THEN [ok |-> TRUE, value |-> r.value, cached |-> r.cached, t |-> t,
              times |-> started, delays |-> delays, answer |-> answer]
        ELSE IF GiveUp(r.error, attempt)                                      \* line 392
             THEN [ok |-> FALSE, error |-> r.error, cached |-> r.cached, t |-> t,
                   times |-> started, delays |-> delays, answer |-> answer]
             ELSE LET delay == BASE_DELAY * Pow2(attempt)                     \* line 397
                  IN  RetryWithBackoff(batch, script, attempt + 1,
                                       AfterTimeout(t, delay, lateness),
                                       started, Append(delays, delay), lateness)

\* performTranslation, lines 406-473: the limiter once, then the wrapped call
PerformTranslation(rl, t, script, lateness) ==
    LET Result(w, r) ==
            [rl |-> [last |-> w.last, cpm |-> w.cpm, cps |-> w.cps, sec |-> w.sec],
             waits |-> w.waits, r |-> r]
        AfterWait(w) ==
            Result(w, RetryWithBackoff(FALSE, script, 0, w.t, << >>, << >>, lateness))
    IN  AfterWait(WaitForRateLimit(rl, t, lateness))

(***************************************************************************)
(* TranslationService.translate and clearCache                             *)
(***************************************************************************)
OrElse(a, b) == IF a # None THEN a ELSE b

\* saveToDatabaseCache, lines 475-496: the row that is written at time t
CachedTranslationOf(request, response, t) ==
    [originalText |-> request.text,
     translatedText |-> response.translatedText,
     sourceLang |-> OrElse(response.detectedLanguage, OrElse(request.sourceLang, Auto)),
     targetLang |-> request.targetLang,
     expiresAt |-> t + TRANSLATION_CACHE_TTL_DAYS * DayMs]

\* saveToDatabaseCache, lines 475-496: an error of saveTranslation is logged
\* and not thrown again, lines 491-495
SaveToDatabaseCache(db, hasDb, fault, request, response, t) ==
    IF hasDb /\ fault # "saveTranslation"
    THEN SaveTranslation(db, CachedTranslationOf(request, response, t))
    ELSE db

\* lines 299-302: the response built from a row of the table
ResponseOfRow(row) ==
    [translatedText |-> row.translatedText,
     detectedLanguage |-> IF row.sourceLang # Auto THEN row.sourceLang ELSE None]

NoRetry == [ok |-> FALSE, times |-> << >>, delays |-> << >>]

\* translate, lines 275-328, for one caller at a time.  svc is the service
\* [mem, db, hasDb, rl, fault], t the time of the call, script what the
\* backend answers to the attempts of this request.
Translate(svc, t, lateness, request, script) ==
    LET key == CacheKey(request.text, request.sourceLang, request.targetLang)
        cachedResult == MemGet(svc.mem, key, t)                          \* line 283
        mem0 == MemAfterGet(svc.mem, key, t)
        dbCached == IF svc.hasDb                                         \* lines 290-295
                    THEN GetTranslation(svc.db, request.text,
                                        OrElse(request.sourceLang, Auto),
                                        request.targetLang, t)
                    ELSE Absent
        FromMemory(value) ==
            [mem |-> mem0, db |-> svc.db, rl |-> svc.rl, t |-> t, ok |-> TRUE,
             value |-> value, source |-> "memory", storeRead |-> FALSE,
             retry |-> NoRetry, waits |-> NoWait]
        FromStore(row) ==
            [mem |-> MemSet(mem0, key, ResponseOfRow(row), t),           \* line 305
             db |-> svc.db, rl |-> svc.rl, t |-> t, ok |-> TRUE,
             value |-> ResponseOfRow(row), source |-> "store",
             storeRead |-> TRUE, retry |-> NoRetry, waits |-> NoWait]
        FromBackend(p) ==                                                \* line 312
            IF p.r.ok
            THEN [mem |-> MemSet(mem0, key, p.r.value, p.r.t),           \* line 315
                  db |-> SaveToDatabaseCache(svc.db, svc.hasDb, svc.fault, request,
                                             p.r.value, p.r.t),
                  rl |-> p.rl, t |-> p.r.t, ok |-> TRUE, value |-> p.r.value,
                  source |-> "backend", storeRead |-> svc.hasDb, retry |-> p.r,
                  waits |-> p.waits]
            ELSE [mem |-> mem0, db |-> svc.db, rl |-> p.rl, t |-> p.r.t, ok |-> FALSE,
                  value |-> p.r.error, source |-> "backend", storeRead |-> svc.hasDb,
                  retry |-> p.r, waits |-> p.waits]
        \* lines 290-295 are outside the try block of line 311: an error of
        \* getTranslation leaves translate as it is
        StoreRaised ==
            [mem |-> mem0, db |-> svc.db, rl |-> svc.rl, t |-> t, ok |-> FALSE,
             value |-> PlainError("database"), source |-> "store",
             storeRead |-> TRUE, retry |-> NoRetry, waits |-> NoWait]
    IN  IF cachedResult # Absent THEN FromMemory(cachedResult)
        ELSE IF svc.hasDb /\ svc.fault = "getTranslation" THEN StoreRaised
        ELSE IF dbCached # Absent THEN FromStore(dbCached)
        ELSE FromBackend(PerformTranslation(svc.rl, t, script, lateness))

(***************************************************************************)
(* TranslationService.translateBatch and translateModContent               *)
(***************************************************************************)
RECURSIVE MemSetMany(_, _, _, _, _)
\* cache.set(cacheKeys[index], result) for the first n results, lines 620-634
MemSetMany(mem, keys, items, n, t) ==
    IF n = 0 THEN mem
    ELSE MemSet(MemSetMany(mem, keys, items, n - 1, t), keys[n], ResultOfItem(items[n]), t)

\* translateBatch, lines 558-660, for one caller at a time
TranslateBatch(svc, t, lateness, texts, tgt, src, script) ==
    LET idx == 1..Len(texts)
        keys == [i \in idx |-> CacheKey(texts[i], src, tgt)]              \* line 570
        cachedResults == [i \in idx |-> MemGet(svc.mem, keys[i], t)]      \* line 574
        expired == {keys[i] : i \in {j \in idx : keys[j] \in DOMAIN svc.mem
                                                  /\ ~MemLive(svc.mem, keys[j], t)}}
        mem0 == [k \in DOMAIN svc.mem \ expired |-> svc.mem[k]]
        Called(w, r) ==
            [mem |-> MemSetMany(mem0, keys, r.answer.items, r.cached, r.t),
             db |-> svc.db,
             rl |-> [last |-> w.last, cpm |-> w.cpm, cps |-> w.cps, sec |-> w.sec],
             t |-> r.t, ok |-> r.ok,
             value |-> IF r.ok THEN r.value ELSE r.error,
             times |-> r.times, sent |-> texts]                           \* line 591
        AfterWait(w) ==                                                   \* line 602
            Called(w, RetryWithBackoff(TRUE, script, 0, w.t, << >>, << >>, lateness))
    IN  IF texts = << >>                                                  \* line 565
        THEN [mem |-> svc.mem, db |-> svc.db, rl |-> svc.rl, t |-> t, ok |-> TRUE,
              value |-> << >>, times |-> << >>, sent |-> << >>]
        ELSE IF \A i \in idx : cachedResults[i] # Absent                  \* line 579
        THEN [mem |-> mem0, db |-> svc.db, rl |-> svc.rl, t |-> t, ok |-> TRUE,
              value |-> cachedResults, times |-> << >>, sent |-> << >>]
        ELSE AfterWait(WaitForRateLimit(svc.rl, t, lateness))

\* translations[i]?.translatedText || original
TextOr(results, i, original) ==
    IF i <= Len(results) /\ results[i].translatedText # ""
    THEN results[i].translatedText ELSE original

\* translateModContent, lines 498-556.  scripts gives the backend's answers to
\* the batch call and to the two single calls of the fallback.  The fallback
\* starts its two translate calls together (Promise.allSettled); they are
\* taken here in the order in which they start.
TranslateModContent(svc, t, lateness, title, description, tgt, scripts) ==
    LET After(r) == [mem |-> r.mem, db |-> r.db, hasDb |-> svc.hasDb, rl |-> r.rl,
                     fault |-> svc.fault]
        Settled(b, r1, r2) ==                                             \* lines 521-555
            [mem |-> r2.mem, db |-> r2.db, rl |-> r2.rl, t |-> r2.t,
             translatedTitle |-> IF r1.ok THEN r1.value.translatedText ELSE title,
             translatedDescription |-> IF r2.ok THEN r2.value.translatedText
                                       ELSE description,
             detectedLanguage |->
                 IF r1.ok /\ r1.value.detectedLanguage # None             \* line 540
                 THEN r1.value.detectedLanguage
                 ELSE IF r2.ok THEN r2.value.detectedLanguage ELSE None,
             times |-> b.times \o r1.retry.times \o r2.retry.times,
             failed |-> (IF r1.ok THEN {} ELSE {"title"})
                        \cup (IF r2.ok THEN {} ELSE {"description"})]
        ThenDescription(b, r1) ==
            Settled(b, r1, Translate(After(r1), r1.t, lateness,
                                     [text |-> description, sourceLang |-> None,
                                      targetLang |-> tgt],
                                     scripts.description))
        Fallback(b) ==                                                    \* lines 516-519
            ThenDescription(b, Translate(After(b), b.t, lateness,
                                         [text |-> title, sourceLang |-> None,
                                          targetLang |-> tgt],
                                         scripts.title))
        AfterBatch(b) ==
            IF b.ok
            THEN [mem |-> b.mem, db |-> b.db, rl |-> b.rl, t |-> b.t,
                  translatedTitle |-> TextOr(b.value, 1, title),          \* line 508
                  translatedDescription |-> TextOr(b.value, 2, description),
                  detectedLanguage |-> IF Len(b.value) >= 1
                                       THEN b.value[1].detectedLanguage ELSE None,
                  times |-> b.times, failed |-> {}]
            ELSE Fallback(b)
    IN  AfterBatch(TranslateBatch(svc, t, lateness, <<title, description>>, tgt, None,
                                  scripts.batch))

\* the services as a handler finds them; fault names the method of the
\* Database that raises during the handler, "none" when none does
Service ==
    [mem |-> memCache, db |-> translations, hasDb |-> hasDatabase, rl |-> Limiter,
     fault |-> "none"]

(***************************************************************************)
(* SpecClient: translate requests one at a time against a scripted         *)
(* backend, cache clears, restarts of the process and the passing of time. *)
(***************************************************************************)
Texts == {"title", "description"}
\* the method of the Database that raises when a request calls it, if any
StoreFaults == {"none", "getTranslation", "saveTranslation"}
SourceLangs == {None, "zh"}
Scripts == { <<OkAnswer("A", "ZH")>>,
             <<OkAnswer("B", None)>>,
             <<ErrAnswer(429), ErrAnswer(429), OkAnswer("A", "ZH")>>,
             <<ErrAnswer(403)>>,
             <<ErrAnswer(456)>>,
             <<ErrAnswer(0)>> }
\* answers to a batch of two texts: both translated, the second text missing
\* in the answer, and a refusal
BatchScripts == { <<[status |-> 200, items |-> <<[text |-> "A", detected |-> "ZH"],
                                                [text |-> "D", detected |-> "ZH"]>>]>>,
                  <<[status |-> 200, items |-> <<[text |-> "A", detected |-> "ZH"],
                                                [text |-> "", detected |-> "ZH"]>>]>>,
                  <<ErrAnswer(403)>> }
BatchTexts == <<"title", "description">>
\* just past the memory TTL, the store TTL, and a day more
Ticks == {StdTTLMs + 1, TRANSLATION_CACHE_TTL_DAYS * DayMs, (TRANSLATION_CACHE_TTL_DAYS + 1) * DayMs}
ClientStartTimes == {DayMs + 10 * StdTTLMs}

InitClient ==
    /\ now \in ClientStartTimes
    /\ lastRequestTime = 0
    /\ requestCountPerMinute = 0
    /\ requestCountPerSecond = 0
    /\ lastSecondTimestamp = 0
    /\ callLog = << >>
    /\ lastWait = NoWait
    /\ pace = 0
    /\ lag = 0
    /\ idled = FALSE
    /\ memCache = << >>
    /\ translations = << >>
    /\ hasDatabase \in BOOLEAN
    /\ inflight = {}
    /\ reqs = NoReqs
    /\ last = [op |-> "none"]
    /\ ops = 0
    /\ SyncIdle

TranslateRequest ==
    LET \* the method that raised: the lookup after a memory miss (line 291),
        \* the write after a successful remote call (line 319)
        Raised(fault, r) ==
            IF fault = "getTranslation" /\ r.storeRead THEN fault
            ELSE IF fault = "saveTranslation" /\ r.source = "backend" /\ r.ok THEN fault
            ELSE "none"
        Done(request, script, fault, r) ==
            /\ memCache' = r.mem
            /\ translations' = r.db
            /\ lastRequestTime' = r.rl.last
            /\ requestCountPerMinute' = r.rl.cpm
            /\ requestCountPerSecond' = r.rl.cps
            /\ lastSecondTimestamp' = r.rl.sec
            /\ now' = r.t
            /\ callLog' = callLog \o r.retry.times
            /\ lastWait' = r.waits
            /\ last' = [op |-> "translate", request |-> request, script |-> script,
                        fault |-> Raised(fault, r),
                        ok |-> r.ok, value |-> r.value, source |-> r.source,
                        storeRead |-> r.storeRead, calls |-> Len(r.retry.times),
                        delays |-> r.retry.delays]
        Request(request, script, fault) ==
            Done(request, script, fault,
                 Translate([Service EXCEPT !.fault = fault], now, lag, request, script))
    IN  /\ ops < MaxOps
        /\ \E text \in Texts, src \in SourceLangs, script \in Scripts,
              fault \in (IF hasDatabase THEN StoreFaults ELSE {"none"}) :
              Request([text |-> text, sourceLang |-> src, targetLang |-> "en"], script,
                      fault)
        /\ ops' = ops + 1
        /\ UNCHANGED <<lag, paceVars, hasDatabase, inflight, reqs, syncVars>>

\* translateBatch called with the two texts
TranslateBatchRequest ==
    LET Done(src, script, r) ==
            /\ memCache' = r.mem
            /\ translations' = r.db
            /\ lastRequestTime' = r.rl.last
            /\ requestCountPerMinute' = r.rl.cpm
            /\ requestCountPerSecond' = r.rl.cps
            /\ lastSecondTimestamp' = r.rl.sec
            /\ now' = r.t
            /\ callLog' = callLog \o r.times
            /\ last' = [op |-> "batch", texts |-> BatchTexts, sourceLang |-> src,
                        script |-> script, ok |-> r.ok, value |-> r.value,
                        sent |-> r.sent, calls |-> Len(r.times)]
    IN  /\ ops < MaxOps
        /\ \E src \in SourceLangs, script \in BatchScripts :
              Done(src, script,
                   TranslateBatch(Service, now, lag, BatchTexts, "en", src, script))
        /\ ops' = ops + 1
        /\ UNCHANGED <<lastWait, lag, paceVars, hasDatabase, inflight, reqs, syncVars>>

\* clearCache, lines 703-711
ClearCache ==
    /\ ops < MaxOps
    /\ memCache' = << >>                                                 \* flushAll
    /\ translations' = IF hasDatabase
                       THEN CleanExpiredTranslations(translations, now)
                       ELSE translations
    /\ last' = [op |-> "clear"]
    /\ ops' = ops + 1
    /\ UNCHANGED <<now, limiterVars, callLog, lastWait, lag, paceVars, hasDatabase, inflight, reqs, syncVars>>

Tick ==
    /\ ops < MaxOps
    /\ \E d \in Ticks : now + d <= MaxClock /\ now' = now + d
    /\ last' = [op |-> "tick"]
    /\ ops' = ops + 1
    /\ UNCHANGED <<limiterVars, callLog, lastWait, lag, paceVars, cacheVars, syncVars>>

\* the process is started again: index.ts constructs a new service, whose
\* memory cache is empty and whose counters are zero; the tables stay
Restart ==
    /\ ops < MaxOps
    /\ memCache # << >>
    /\ memCache' = << >>
    /\ lastRequestTime' = 0
    /\ requestCountPerMinute' = 0
    /\ requestCountPerSecond' = 0
    /\ lastSecondTimestamp' = 0
    /\ lastWait' = NoWait
    /\ last' = [op |-> "restart", before |-> last]
    /\ ops' = ops + 1
    /\ UNCHANGED <<now, callLog, lag, paceVars, translations, hasDatabase, inflight, reqs,
                   syncVars>>

NextClient == TranslateRequest \/ TranslateBatchRequest \/ ClearCache \/ Tick \/ Restart

SpecClient == InitClient /\ [][NextClient]_vars

(***************************************************************************)
(* Claims about the translation client (SpecClient)                        *)
(***************************************************************************)
LastKey == CacheKey(last.request.text, last.request.sourceLang, last.request.targetLang)

StoreKeyOf(request) ==
    <<request.text, OrElse(request.sourceLang, Auto), request.targetLang>>

\* the table holds a row for the request's key whose expiry time has not passed
StoreUnexpired(db, request, t) ==
    \E i \in 1..Len(db) :
        /\ <<db[i].originalText, db[i].sourceLang, db[i].targetLang>> = StoreKeyOf(request)
        /\ db[i].exp > t

ThrottledTwice == <<ErrAnswer(429), ErrAnswer(429), OkAnswer("A", "ZH")>>

\* C2: a backend that answers 429, 429 and then success makes the request
\* perform exactly 3 remote calls, 1000 ms and 2000 ms apart, and return the
\* successful translation.
C2_RetryThenSuccess ==
    (last.op = "translate" /\ last.source = "backend" /\ last.script = ThrottledTwice)
        => /\ last.calls = 3
           /\ last.delays = <<BASE_DELAY, 2 * BASE_DELAY>>
           /\ last.ok
           /\ last.value.translatedText = "A"

\* C8: translate consults the memory cache first and the store second.  A
\* memory hit returns the cached value with no store read, no remote call
\* and no rate budget used; a memory miss with an unexpired row returns the
\* stored text with no remote call and leaves the key in the memory cache;
\* a remote call is made only when both tiers miss.
C8_CacheOrder ==
    [][ (last'.op = "translate" /\ ops' = ops + 1) =>
          LET rq == last'.request
              key == CacheKey(rq.text, rq.sourceLang, rq.targetLang)
              memHit == MemLive(memCache, key, now)
              \* the store answers the lookup with the unexpired row
              storeHit == /\ hasDatabase /\ last'.fault # "getTranslation"
                          /\ StoreUnexpired(translations, rq, now)
          IN  /\ memHit =>
                    /\ callLog' = callLog
                    /\ limiterVars' = limiterVars
                    /\ ~last'.storeRead
                    /\ last'.ok /\ last'.value = memCache[key].value
              /\ (~memHit /\ storeHit) =>
                    /\ callLog' = callLog
                    /\ limiterVars' = limiterVars
                    /\ last'.ok
                    /\ \E i \in 1..Len(translations) :
                          /\ <<translations[i].originalText, translations[i].sourceLang,
                                translations[i].targetLang>> = StoreKeyOf(rq)
                          /\ last'.value.translatedText = translations[i].translatedText
                    /\ MemLive(memCache', key, now')
              /\ (callLog' # callLog) => (~memHit /\ ~storeHit)
      ]_vars

\* a request was answered from the store and the memory cache was refreshed
C8_Witness ==
    /\ last.op = "translate"
    /\ last.source = "store"
    /\ last.calls = 0
    /\ MemLive(memCache, LastKey, now)
    /\ callLog # << >>

\* C9: when translate obtained a translation from the backend, the memory
\* cache and the persistent store both hold an entry for the request when it
\* returns, the store entry expiring at the time of the write plus 7 days.
C9_WriteThrough ==
    (last.op = "translate" /\ last.source = "backend" /\ last.ok) =>
        /\ MemLive(memCache, LastKey, now)
        /\ \E k \in DOMAIN translations :
              /\ translations[k].originalText = last.request.text
              /\ translations[k].targetLang = last.request.targetLang
              /\ translations[k].translatedText = last.value.translatedText
              /\ translations[k].exp = now + TRANSLATION_CACHE_TTL_DAYS * DayMs

\* C10: after clearCache neither tier holds a translation, and a request
\* that follows the clear makes exactly one remote call.
C10_ClearPurgesBothTiers ==
    [][ /\ (last'.op = "clear" /\ ops' = ops + 1) =>
              (memCache' = << >> /\ translations' = << >>)
        /\ (last.op = "clear" /\ last'.op = "translate" /\ Len(last'.script) = 1) =>
              last'.calls = 1
      ]_vars

\* a translateBatch call has just returned
BatchReturned == last'.op = "batch" /\ ops' = ops + 1

\* C11: translateBatch sends the backend exactly the texts that have no live
\* entry in the memory cache, in one call; when every text has one it makes
\* no remote call and leaves the rate counters alone.
C11_BatchSendsOnlyMisses ==
    [][ BatchReturned =>
          LET Miss(text) == ~MemLive(memCache, CacheKey(text, last'.sourceLang, "en"), now)
              misses == SelectSeq(BatchTexts, Miss)
          IN  /\ misses = << >> => (callLog' = callLog /\ limiterVars' = limiterVars)
              /\ misses # << >> => (last'.calls >= 1 /\ last'.sent = misses)
      ]_vars

\* C12: with a persistent store, translateBatch does not send the backend a
\* text that has an unexpired row in the store and no entry in memory, and
\* after a successful remote batch every text has a memory entry and a row
\* in the store that holds its translation.
C12_BatchUsesBothTiers ==
    [][ (BatchReturned /\ hasDatabase) =>
          LET Request(text) ==
                  [text |-> text, sourceLang |-> last'.sourceLang, targetLang |-> "en"]
              InStoreOnly(text) ==
                  /\ ~MemLive(memCache, CacheKey(text, last'.sourceLang, "en"), now)
                  /\ StoreUnexpired(translations, Request(text), now)
          IN  /\ \A i \in 1..Len(BatchTexts) :
                    InStoreOnly(BatchTexts[i]) =>
                       \A k \in 1..Len(last'.sent) : last'.sent[k] # BatchTexts[i]
              /\ (last'.ok /\ last'.calls > 0) =>
                    \A i \in 1..Len(BatchTexts) :
                       /\ MemLive(memCache', CacheKey(BatchTexts[i], last'.sourceLang, "en"),
                                  now')
                       /\ \E k \in 1..Len(translations') :
                             /\ translations'[k].originalText = BatchTexts[i]
                             /\ translations'[k].targetLang = "en"
                             /\ translations'[k].translatedText =
                                   last'.value[i].translatedText
      ]_vars

\* C14: a remote call answered with an error other than 429 (403, 456, no
\* response) ends the request after that one call, with no backoff wait, and
\* the error that is thrown names the category or the status.
C14_OtherErrorsFailAtOnce ==
    /\ (last.op = "translate" /\ last.source = "backend"
        /\ last.script[1].status \notin {200, 429}) =>
          /\ last.calls = 1
          /\ last.delays = << >>
          /\ ~last.ok
          /\ last.script[1].status = 403 => last.value.message = "authentication failed"
          /\ last.script[1].status = 456 => last.value.message = "quota exceeded"
          /\ last.script[1].status = 0 =>
                last.value.message = "DeepL API error (undefined)"
    /\ (last.op = "batch" /\ last.calls > 0 /\ last.script[1].status \notin {200, 429}) =>
          /\ last.calls = 1
          /\ ~last.ok
          /\ last.script[1].status = 403 => last.value.message = "authentication failed"

\* a request was refused for exhausted quota after one call
C14_Witness ==
    /\ last.op = "translate"
    /\ last.source = "backend"
    /\ last.script = <<ErrAnswer(456)>>
    /\ last.calls = 1
    /\ ~last.ok
    /\ last.value.message = "quota exceeded"

(***************************************************************************)
(* The Steam Workshop side and SteamWorkshopService                        *)
(***************************************************************************)
\* 0 stands for a missing date
NoDate == 0

\* the scripts the texts of an item are written in: identifiers 1, 5, 9, ...
\* are Latin at first and carry Chinese text from revision 1 on, 2, 6, ...
\* are Chinese, 3, 7, ... Japanese (kanji and kana), the others Korean
CharsOf(id, rev) ==
    CASE id % 4 = 1 -> IF rev = 0 THEN {} ELSE {"han"}
      [] id % 4 = 2 -> {"han"}
      [] id % 4 = 3 -> {"han", "kana"}
      [] OTHER -> {"hangul"}

\* what GetPublishedFileDetails reports for one identifier
RemoteItem(id) ==
    IF id \in withdrawn
    THEN [publishedfileid |-> id, result |-> 9, title |-> "", description |-> "",
          time_updated |-> 0, chars |-> {}]
    ELSE [publishedfileid |-> id, result |-> 1,
          title |-> "title-" \o ToString(id) \o "-r" \o ToString(remoteRev),
          description |-> "description-" \o ToString(id) \o "-r" \o ToString(remoteRev),
          time_updated |-> remoteUpdatedAt, chars |-> CharsOf(id, remoteRev)]

\* detectLanguage, lines 107-120
DetectLanguage(chars) ==
    IF "hangul" \in chars THEN "ko"
    ELSE IF "han" \in chars THEN "zh"
    ELSE IF "kana" \in chars THEN "ja"
    ELSE "en"

\* mapWorkshopItemToMod, lines 85-100
MapWorkshopItemToMod(item) ==
    [id |-> item.publishedfileid,
     title |-> IF item.title # "" THEN item.title ELSE "Unknown Title",
     description |-> item.description,
     timeUpdated |-> item.time_updated * SecondMs,
     language |-> DetectLanguage(item.chars),
     originalTitle |-> None, originalDescription |-> None,
     translatedTitle |-> None, translatedDescription |-> None,
     lastTranslated |-> NoDate]

(***************************************************************************)
(* The translation backend                                                 *)
(***************************************************************************)
\* detected_source_language of a text written in the given scripts
DeepLDetects(chars) ==
    IF "hangul" \in chars THEN "KO"
    ELSE IF "kana" \in chars THEN "JA"
    ELSE IF "han" \in chars THEN "ZH"
    ELSE "EN"

BackendModes == {"up", "down", "quota"}

\* the answer of the backend to a POST with the given texts
BackendAnswer(mode, texts, chars) ==
    IF mode = "up"
    THEN [status |-> 200,
          items |-> [i \in 1..Len(texts) |->
                        [text |-> texts[i] \o "-en", detected |-> DeepLDetects(chars)]]]
    ELSE IF mode = "quota" THEN ErrAnswer(456) ELSE ErrAnswer(503)

\* the answers to the calls translateModContent may make for one item
ScriptsFor(mode, item) ==
    LET For(mod) ==
            [batch |-> <<BackendAnswer(mode, <<mod.title, mod.description>>, item.chars)>>,
             title |-> <<BackendAnswer(mode, <<mod.title>>, item.chars)>>,
             description |-> <<BackendAnswer(mode, <<mod.description>>, item.chars)>>]
    IN  For(MapWorkshopItemToMod(item))

(***************************************************************************)
(* Database: the mods table                                                *)
(***************************************************************************)
\* x || null
OrNull(x) == IF x = "" THEN None ELSE x

\* Database.saveMod: INSERT OR REPLACE INTO mods
SaveMod(db, mod) ==
    LET row == [id |-> mod.id, title |-> mod.title, description |-> mod.description,
                timeUpdated |-> mod.timeUpdated,
                language |-> OrNull(mod.language),
                originalTitle |-> OrNull(mod.originalTitle),
                originalDescription |-> OrNull(mod.originalDescription),
                translatedTitle |-> OrNull(mod.translatedTitle),
                translatedDescription |-> OrNull(mod.translatedDescription),
                lastTranslated |-> mod.lastTranslated]
    IN  [k \in DOMAIN db \cup {mod.id} |-> IF k = mod.id THEN row ELSE db[k]]

\* Database.mapRowToMod
MapRowToMod(row) ==
    [id |-> row.id, title |-> row.title, description |-> row.description,
     timeUpdated |-> row.timeUpdated, language |-> row.language,
     originalTitle |-> row.originalTitle,
     originalDescription |-> row.originalDescription,
     translatedTitle |-> row.translatedTitle,
     translatedDescription |-> row.translatedDescription,
     lastTranslated |-> row.lastTranslated]

\* Database.getMod
DbGetMod(db, id) == IF id \in DOMAIN db THEN MapRowToMod(db[id]) ELSE Absent

(***************************************************************************)
(* ModService                                                              *)
(***************************************************************************)
batchSize == 100

Truthy(x) == x # None /\ x # ""

\* new Date() moved back by the TTL, lines 163-165 and 181-183
ExpiryDate(t) == t - TRANSLATION_CACHE_TTL_DAYS * DayMs

ShouldTranslateMod_NoExpiry(mod, existingMod, t) ==
    IF existingMod = Absent THEN TRUE
    ELSE IF existingMod.lastTranslated = NoDate THEN TRUE
    ELSE mod.timeUpdated > existingMod.lastTranslated

\* shouldTranslateMod, lines 146-173
ShouldTranslateMod(mod, existingMod, t) ==
    IF existingMod = Absent THEN TRUE                                    \* line 148
    ELSE IF existingMod.lastTranslated = NoDate THEN TRUE                \* line 153
    ELSE IF mod.timeUpdated > existingMod.lastTranslated THEN TRUE       \* line 158
    ELSE IF existingMod.lastTranslated < ExpiryDate(t) THEN TRUE         \* line 167
    ELSE FALSE

WithOriginals_Skipped(mod) == mod

\* lines 193-198: the original content is stored if not already stored
WithOriginals(mod) ==
    [mod EXCEPT !.originalTitle = IF Truthy(@) THEN @ ELSE mod.title,
                !.originalDescription = IF Truthy(@) THEN @ ELSE mod.description]

\* translateMod, lines 175-230.  db is the mods table, svc the translation
\* service; called tells whether translateModContent was called.
TranslateMod(mod, forceRetranslate, db, svc, t, lateness, scripts) ==
    LET Updated(tr) ==                                                   \* lines 208-215
            [WithOriginals(mod) EXCEPT
                !.translatedTitle = tr.translatedTitle,
                !.translatedDescription = tr.translatedDescription,
                !.lastTranslated = tr.t,
                !.language = IF Truthy(tr.detectedLanguage)
                             THEN tr.detectedLanguage ELSE @]
        \* line 221; a saveMod that raises is caught at lines 225-229
        Saved(tr, translated) ==
            [mod |-> translated,
             mods |-> IF svc.fault = "saveMod" THEN db ELSE SaveMod(db, translated),
             mem |-> tr.mem, db |-> tr.db, rl |-> tr.rl, t |-> tr.t,
             called |-> TRUE, times |-> tr.times, failed |-> tr.failed]
        Translated(tr) == Saved(tr, Updated(tr))
    IN  IF /\ ~forceRetranslate
           /\ Truthy(mod.translatedTitle) /\ Truthy(mod.translatedDescription)
           /\ mod.lastTranslated # NoDate /\ mod.lastTranslated > ExpiryDate(t)
        THEN [mod |-> mod, mods |-> db, mem |-> svc.mem, db |-> svc.db, rl |-> svc.rl,
              t |-> t, called |-> FALSE, times |-> << >>, failed |-> {}]
        ELSE Translated(TranslateModContent(svc, t, lateness, mod.title, mod.description,
                                            "en", scripts))              \* line 201

\* lines 102-108: the translation fields of the existing record are kept
KeepExisting(mod, existingMod) ==
    IF existingMod # Absent
    THEN [mod EXCEPT !.translatedTitle = existingMod.translatedTitle,
                     !.translatedDescription = existingMod.translatedDescription,
                     !.lastTranslated = existingMod.lastTranslated,
                     !.originalTitle = existingMod.originalTitle,
                     !.originalDescription = existingMod.originalDescription]
    ELSE mod

\* the body of the item loop of syncModsFromWorkshop, lines 73-126
ProcessItem(item, db, svc, t, lateness, scripts) ==
    LET Skipped(mod) ==
            [mod |-> mod, mods |-> db, mem |-> svc.mem, db |-> svc.db, rl |-> svc.rl,
             t |-> t, called |-> FALSE, times |-> << >>, failed |-> {},
             synced |-> FALSE,
             errors |-> <<[kind |-> "result", ref |-> item.publishedfileid]>>]
        \* lines 122-126: saveMod raised at line 117, or at line 110 and again
        \* at line 114
        SaveRaised(m) ==
            [mod |-> m, mods |-> db, mem |-> svc.mem, db |-> svc.db,
             rl |-> svc.rl, t |-> t, called |-> FALSE, times |-> << >>,
             failed |-> {}, synced |-> FALSE,
             errors |-> <<[kind |-> "process", ref |-> item.publishedfileid]>>]
        Plain(m) ==
            IF svc.fault = "saveMod" THEN SaveRaised(m)
            ELSE [mod |-> m, mods |-> SaveMod(db, m), mem |-> svc.mem, db |-> svc.db,
                  rl |-> svc.rl, t |-> t, called |-> FALSE, times |-> << >>,
                  failed |-> {}, synced |-> TRUE, errors |-> << >>]
        Sent(tm) ==
            [mod |-> tm.mod, mods |-> tm.mods, mem |-> tm.mem, db |-> tm.db,
             rl |-> tm.rl, t |-> tm.t, called |-> tm.called, times |-> tm.times,
             failed |-> tm.failed, synced |-> TRUE, errors |-> << >>]
        Checked(mod, existingMod) ==
            IF ShouldTranslateMod(mod, existingMod, t)                   \* line 95
            THEN Sent(TranslateMod(mod, FALSE, db, svc, t, lateness, scripts))
            ELSE Plain(KeepExisting(mod, existingMod))                   \* line 110
        Mapped(mod) ==
            IF Truthy(mod.language) /\ mod.language # "en"               \* line 91
            THEN Checked(mod, DbGetMod(db, mod.id))                      \* line 94
            ELSE Plain(mod)                                              \* line 117
    IN  IF item.result # 1                                               \* line 76
        THEN Skipped(MapWorkshopItemToMod(item))
        ELSE Mapped(MapWorkshopItemToMod(item))                          \* line 81

\* the loop variable after the batch that started at i
NextBatchStart_Abort(i, n) == n

NextBatchStart(i, n) == i + batchSize

Min(a, b) == IF a <= b THEN a ELSE b

BatchSlice_Whole(i, n) == [from |-> i + 1, to |-> n]

\* line 68: fileIds.slice(i, i + batchSize), the identifiers from..to
BatchSlice(i, n) == [from |-> i + 1, to |-> Min(i + batchSize, n)]

\* the scripts a stored text is written in: the text of revision 0 of an
\* item, of a later revision, or the placeholder title
CharsOfText(id, title) ==
    IF title = "Unknown Title" THEN {}
    ELSE IF title = "title-" \o ToString(id) \o "-r0" THEN CharsOf(id, 0)
    ELSE CharsOf(id, 1)

\* the answers to the calls translateModContent may make for a stored mod
ScriptsForMod(mode, mod) ==
    [batch |-> <<BackendAnswer(mode, <<mod.title, mod.description>>,
                               CharsOfText(mod.id, mod.title))>>,
     title |-> <<BackendAnswer(mode, <<mod.title>>, CharsOfText(mod.id, mod.title))>>,
     description |-> <<BackendAnswer(mode, <<mod.description>>,
                                     CharsOfText(mod.id, mod.title))>>]

\* the identifiers of the rows in the order of
\* SELECT * FROM mods ORDER BY time_updated DESC (rows of equal time_updated
\* in the order of their identifiers)
RECURSIVE ByTimeUpdatedDesc(_, _)
ByTimeUpdatedDesc(db, ids) ==
    IF ids = {} THEN << >>
    ELSE LET first == CHOOSE i \in ids : \A j \in ids :
                         \/ db[i].timeUpdated > db[j].timeUpdated
                         \/ db[i].timeUpdated = db[j].timeUpdated /\ i <= j
         IN  <<first>> \o ByTimeUpdatedDesc(db, ids \ {first})

\* Database.getAllMods(limit)
GetAllMods(db, limit) ==
    LET ids == ByTimeUpdatedDesc(db, DOMAIN db)
    IN  [i \in 1..Min(Len(ids), limit) |-> MapRowToMod(db[ids[i]])]

\* SteamWorkshopService.getModUpdates, lines 60-83: the identifiers of the
\* known mods whose remote time_updated is later than the stored one; none
\* when the fetch fails
GetModUpdates(knownMods, fetched) ==
    LET IsUpdated(knownMod) ==
            RemoteItem(knownMod.id).time_updated > knownMod.timeUpdated \div SecondMs
        updatedMods == SelectSeq(knownMods, IsUpdated)
    IN  IF Len(knownMods) = 0 \/ ~fetched THEN << >>
        ELSE [i \in 1..Len(updatedMods) |-> updatedMods[i].id]

\* the state a handler of ModService works on
Progress(db, svc, t) ==
    [mods |-> db, mem |-> svc.mem, db |-> svc.db, hasDb |-> svc.hasDb, rl |-> svc.rl,
     fault |-> svc.fault, t |-> t, times |-> << >>, done |-> << >>, errors |-> << >>]

\* the state after translateMod has returned tm
AfterTranslateMod(acc, tm) ==
    [acc EXCEPT !.mods = tm.mods, !.mem = tm.mem, !.db = tm.db, !.rl = tm.rl,
                !.t = tm.t, !.times = @ \o tm.times, !.done = Append(@, tm.mod)]

\* the state after saveMod(m)
AfterSaveMod(acc, m) ==
    [acc EXCEPT !.mods = SaveMod(@, m), !.done = Append(@, m)]

\* getMod, lines 232-258, for an identifier that is not in the table: the
\* first record of the response is mapped and saved, translated first when
\* asked for and not English
FetchMod(id, includeTranslation, acc, fetched, lateness, mode) ==
    LET item == RemoteItem(id)
        newMod == MapWorkshopItemToMod(item)
    IN  IF ~fetched THEN acc                                             \* lines 250-252
        ELSE IF includeTranslation /\ Truthy(newMod.language) /\ newMod.language # "en"
        THEN AfterTranslateMod(acc, TranslateMod(newMod, FALSE, acc.mods, acc, acc.t,
                                                 lateness, ScriptsFor(mode, item)))
        ELSE AfterSaveMod(acc, newMod)

\* the body of the loop of checkForUpdates, lines 278-311
CheckOne(modId, allMods, acc, fetched, lateness, mode) ==
    LET item == RemoteItem(modId)
        updatedMod == MapWorkshopItemToMod(item)
        found == {i \in 1..Len(allMods) : allMods[i].id = modId}
        existingMod == IF found = {} THEN Absent ELSE allMods[CHOOSE i \in found : TRUE]
    IN  IF ~fetched
        THEN [acc EXCEPT !.errors = Append(@, modId)]                    \* lines 307-311
        ELSE IF /\ existingMod # Absent
                /\ Truthy(existingMod.language) /\ existingMod.language # "en"
        THEN IF ShouldTranslateMod(updatedMod, existingMod, acc.t)
             THEN AfterTranslateMod(acc, TranslateMod(updatedMod, TRUE, acc.mods, acc,
                                                      acc.t, lateness,
                                                      ScriptsFor(mode, item)))
             ELSE AfterSaveMod(acc, KeepExisting(updatedMod, existingMod))
        ELSE AfterSaveMod(acc, updatedMod)

\* checkForUpdates, lines 268-320: failing holds the identifiers whose fetch
\* fails
RECURSIVE CheckEach(_, _, _, _, _, _)
CheckEach(modIds, allMods, acc, failing, lateness, mode) ==
    IF modIds = << >> THEN acc
    ELSE CheckEach(Tail(modIds), allMods,
                   CheckOne(Head(modIds), allMods, acc, Head(modIds) \notin failing,
                            lateness, mode),
                   failing, lateness, mode)

\* refreshModTranslations, lines 351-375
RECURSIVE RefreshEach(_, _, _, _)
RefreshEach(modsToTranslate, acc, lateness, mode) ==
    IF modsToTranslate = << >> THEN acc
    ELSE RefreshEach(Tail(modsToTranslate),
                     AfterTranslateMod(acc, TranslateMod(Head(modsToTranslate), TRUE,
                                                         acc.mods, acc, acc.t, lateness,
                                                         ScriptsForMod(mode,
                                                             Head(modsToTranslate)))),
                     lateness, mode)

(***************************************************************************)
(* SpecSync: sync passes over the identifiers 1..nIds, one item per step,  *)
(* single lookups, remote updates and the passing of time between passes.  *)
(* The services are wired as in index.ts: the translation service has no   *)
(* Database.                                                               *)
(***************************************************************************)
\* 0 and 1 identifier, a small catalog, and catalogs of 2 and 3 batches
SyncSizes == {0, 1, SmallCatalog, batchSize + batchSize \div 2, 2 * batchSize + 1}

FailedBatches(errs) == Cardinality({i \in 1..Len(errs) : errs[i].kind = "batch"})

InitSync ==
    /\ now \in ClientStartTimes
    /\ lastRequestTime = 0
    /\ requestCountPerMinute = 0
    /\ requestCountPerSecond = 0
    /\ lastSecondTimestamp = 0
    /\ callLog = << >>
    /\ lastWait = NoWait
    /\ pace = 0
    /\ lag = 0
    /\ idled = FALSE
    /\ memCache = << >>
    /\ translations = << >>
    /\ hasDatabase = FALSE
    /\ inflight = {}
    /\ reqs = NoReqs
    /\ last = [op |-> "none"]
    /\ ops = 0
    /\ mods = << >>
    /\ nIds \in SyncSizes
    /\ withdrawn \in {{}, {i \in 1..nIds : i % 4 = 0}}
    /\ remoteRev = 0
    /\ remoteUpdatedAt = DayMs \div SecondMs
    /\ syncPc = "idle"
    /\ batchStart = 0
    /\ pendFrom = 0
    /\ pendTo = 0
    /\ synced = << >>
    /\ errors = << >>
    /\ fetchLog = << >>
    /\ sent = {}
    /\ pass = NoPass
    /\ prevPass = NoPrevPass

\* scanAndSyncLocalMods, lines 20-49: scanLocalMods throws and the call is
\* rethrown to the caller, or syncModsFromWorkshop(modIds) starts, lines 55-64
SyncStart ==
    /\ syncPc \in {"idle", "done", "raised"}
    /\ pass.n < MaxPasses
    /\ pass.n = 0 \/ nIds <= SmallCatalog
    /\ \E mode \in BackendModes, scanned \in BOOLEAN :
          /\ pass' = [n |-> pass.n + 1, mode |-> mode, t |-> now,
                      calls |-> Len(callLog), scanned |-> scanned]
          /\ syncPc' = IF scanned THEN "fetch" ELSE "raised"
    /\ batchStart' = 0
    /\ synced' = << >>
    /\ errors' = << >>
    /\ fetchLog' = << >>
    /\ sent' = {}
    /\ UNCHANGED <<now, limiterVars, callLog, lastWait, lag, paceVars, cacheVars, clientVars,
                   mods, remoteVars, nIds, pendFrom, pendTo, prevPass>>

\* lines 67-71 and 128-132: the next batch is fetched, or the fetch fails
SyncFetch ==
    /\ syncPc = "fetch"
    /\ batchStart < nIds
    /\ \E ok \in BOOLEAN :
          /\ ~ok => FailedBatches(errors) < MaxFailedBatches
          /\ fetchLog' = Append(fetchLog, [index |-> batchStart, ok |-> ok,
                                           ids |-> BatchSlice(batchStart, nIds)])
          /\ IF ok
             THEN /\ pendFrom' = BatchSlice(batchStart, nIds).from
                  /\ pendTo' = BatchSlice(batchStart, nIds).to
                  /\ syncPc' = "items"
                  /\ UNCHANGED <<errors, batchStart>>
             ELSE /\ errors' = Append(errors, [kind |-> "batch", ref |-> batchStart])
                  /\ batchStart' = NextBatchStart(batchStart, nIds)
                  /\ UNCHANGED <<pendFrom, pendTo, syncPc>>
    /\ UNCHANGED <<now, limiterVars, callLog, lastWait, lag, paceVars, cacheVars, clientVars,
                   mods, remoteVars, nIds, synced, sent, pass, prevPass>>

\* lines 73-126: the next item of the batch is processed; fault names the
\* method of the Database that raises while it is, "none" when none does
SyncItemWith(fault) ==
    LET Processed(item, r) ==
            /\ mods' = r.mods
            /\ memCache' = r.mem
            /\ translations' = r.db
            /\ lastRequestTime' = r.rl.last
            /\ requestCountPerMinute' = r.rl.cpm
            /\ requestCountPerSecond' = r.rl.cps
            /\ lastSecondTimestamp' = r.rl.sec
            /\ now' = r.t
            /\ callLog' = callLog \o r.times
            /\ synced' = IF r.synced THEN Append(synced, r.mod) ELSE synced
            /\ errors' = errors \o r.errors
            /\ sent' = IF r.called
                       THEN sent \cup {[id |-> item.publishedfileid, failed |-> r.failed]}
                       ELSE sent
        Item(item) ==
            Processed(item, ProcessItem(item, mods, [Service EXCEPT !.fault = fault],
                                        now, lag, ScriptsFor(pass.mode, item)))
    IN  /\ syncPc = "items"
        /\ Item(RemoteItem(pendFrom))
        /\ IF pendFrom < pendTo
           THEN /\ pendFrom' = pendFrom + 1
                /\ UNCHANGED <<syncPc, batchStart>>
           ELSE /\ syncPc' = "fetch"
                /\ batchStart' = NextBatchStart(batchStart, nIds)
                /\ UNCHANGED pendFrom
        /\ UNCHANGED <<lastWait, lag, paceVars, hasDatabase, inflight, reqs, clientVars, remoteVars, nIds,
                       pendTo, fetchLog, pass, prevPass>>

SyncItem == SyncItemWith("none")

\* the next item is processed while the mods table cannot be written
SyncItemSaveFails ==
    /\ nIds <= SmallCatalog
    /\ SyncItemWith("saveMod")

\* line 136: the pass returns { synced, errors }
SyncFinish ==
    /\ syncPc = "fetch"
    /\ batchStart >= nIds
    /\ syncPc' = "done"
    /\ prevPass' = [n |-> pass.n, mods |-> mods, t |-> now,
                    clean |-> pass.mode = "up" /\ FailedBatches(errors) = 0,
                    undisturbed |-> TRUE]
    /\ UNCHANGED <<now, limiterVars, callLog, lastWait, lag, paceVars, cacheVars, clientVars,
                   mods, remoteVars, nIds, batchStart, pendFrom, pendTo, synced, errors,
                   fetchLog, sent, pass>>

\* time passes between one pass and the next
Wait ==
    /\ syncPc = "done"
    /\ pass.n < MaxPasses
    /\ nIds <= SmallCatalog
    /\ ops < MaxOps
    /\ \E d \in Ticks : now + d <= MaxClock /\ now' = now + d
    /\ last' = [op |-> "tick"]
    /\ ops' = ops + 1
    /\ UNCHANGED <<limiterVars, callLog, lastWait, lag, paceVars, cacheVars, syncVars>>

\* between two passes the authors publish new texts for the items
RemoteUpdate ==
    /\ syncPc = "done"
    /\ pass.n < MaxPasses
    /\ nIds <= SmallCatalog
    /\ ops < MaxOps
    /\ remoteRev < MaxRevisions
    /\ remoteRev' = remoteRev + 1
    /\ remoteUpdatedAt' = now \div SecondMs
    /\ prevPass' = [prevPass EXCEPT !.undisturbed = FALSE]
    /\ last' = [op |-> "remoteUpdate"]
    /\ ops' = ops + 1
    /\ UNCHANGED <<now, limiterVars, callLog, lastWait, lag, paceVars, cacheVars, mods,
                   withdrawn, nIds, syncPc, batchStart, pendFrom, pendTo, synced, errors,
                   fetchLog, sent, pass>>

NextSync == SyncStart \/ SyncFetch \/ SyncItem \/ SyncFinish \/ Wait \/ RemoteUpdate

SpecSync == InitSync /\ [][NextSync]_vars

(***************************************************************************)
(* SpecSyncFaulty: sync passes during which saveMod may raise              *)
(***************************************************************************)
NextSyncFaulty == NextSync \/ SyncItemSaveFails

SpecSyncFaulty == InitSync /\ [][NextSyncFaulty]_vars

(***************************************************************************)
(* SpecCatalog: the operations of ModService that save fetched records:    *)
(* sync passes over a small folder, single lookups, the update check and   *)
(* the refresh of the translations, with remote updates in between.        *)
(***************************************************************************)
\* the identifiers a caller asks for: a Chinese item and one that may have
\* been withdrawn
LookupIds == {2, SmallCatalog}

\* the language argument of refreshModTranslations
RefreshLanguages == {None, "zh"}

InitCatalog ==
    /\ InitSync
    /\ nIds = SmallCatalog

\* no sync pass is running
BetweenPasses == syncPc \in {"idle", "done", "raised"}

\* the handler has brought the services to the state acc
Handled(acc) ==
    /\ mods' = acc.mods
    /\ memCache' = acc.mem
    /\ translations' = acc.db
    /\ lastRequestTime' = acc.rl.last
    /\ requestCountPerMinute' = acc.rl.cpm
    /\ requestCountPerSecond' = acc.rl.cps
    /\ lastSecondTimestamp' = acc.rl.sec
    /\ now' = acc.t
    /\ callLog' = callLog \o acc.times
    /\ prevPass' = [prevPass EXCEPT !.undisturbed = FALSE]
    /\ ops' = ops + 1
    /\ UNCHANGED <<lastWait, lag, paceVars, hasDatabase, inflight, reqs, remoteVars, nIds, syncPc,
                   batchStart, pendFrom, pendTo, synced, errors, fetchLog, sent, pass>>

\* ModService.getMod(id, includeTranslation)
GetMod ==
    /\ BetweenPasses
    /\ ops < MaxOps
    /\ \E id \in LookupIds, includeTranslation \in BOOLEAN, fetched \in BOOLEAN,
          mode \in BackendModes :
          IF id \in DOMAIN mods
          THEN /\ Handled(Progress(mods, Service, now))
               /\ last' = [op |-> "getMod", id |-> id, found |-> TRUE, fetched |-> FALSE]
          ELSE /\ Handled(FetchMod(id, includeTranslation, Progress(mods, Service, now),
                                   fetched, lag, mode))
               /\ last' = [op |-> "getMod", id |-> id, found |-> FALSE,
                           fetched |-> fetched]

\* ModService.checkForUpdates()
CheckForUpdates ==
    LET Checked(allMods, updatedModIds, mode) ==
            \E failing \in {{}} \cup {{updatedModIds[i]} : i \in 1..Len(updatedModIds)} :
               /\ Handled(CheckEach(updatedModIds, allMods, Progress(mods, Service, now),
                                    failing, lag, mode))
               /\ last' = [op |-> "checkForUpdates", ids |-> updatedModIds,
                           failing |-> failing]
        Known(allMods, mode) ==
            \E fetched \in BOOLEAN :
               Checked(allMods, GetModUpdates(allMods, fetched), mode)
    IN  /\ BetweenPasses
        /\ ops < MaxOps
        /\ \E mode \in BackendModes : Known(GetAllMods(mods, 1000), mode)

\* ModService.refreshModTranslations(language)
RefreshModTranslations ==
    LET Refreshed(allMods, language, mode) ==
            LET Wanted(mod) == IF Truthy(language)
                               THEN mod.language = language
                               ELSE Truthy(mod.language) /\ mod.language # "en"
            IN  /\ Handled(RefreshEach(SelectSeq(allMods, Wanted),
                                       Progress(mods, Service, now), lag, mode))
                /\ last' = [op |-> "refreshModTranslations", language |-> language,
                            n |-> Len(SelectSeq(allMods, Wanted))]
    IN  /\ BetweenPasses
        /\ ops < MaxOps
        /\ \E language \in RefreshLanguages, mode \in BackendModes :
              Refreshed(GetAllMods(mods, 10000), language, mode)

NextCatalog ==
    \/ SyncStart \/ SyncFetch \/ SyncItem \/ SyncFinish
    \/ GetMod \/ CheckForUpdates \/ RefreshModTranslations
    \/ RemoteUpdate

SpecCatalog == InitCatalog /\ [][NextCatalog]_vars

(***************************************************************************)
(* Claims about the sync orchestrator (SpecSync)                           *)
(***************************************************************************)
SentIds == {c.id : c \in sent}

TtlMs == TRANSLATION_CACHE_TTL_DAYS * DayMs

\* the pass has returned its result
PassDone == syncPc = "done"

\* identifiers of the batch that starts at index i
BatchIds(i) == (i + 1)..Min(i + batchSize, nIds)

FetchedIds == UNION {BatchIds(fetchLog[k].index) : k \in {j \in 1..Len(fetchLog) : fetchLog[j].ok}}

TranslationFields(m) ==
    <<m.translatedTitle, m.translatedDescription, m.lastTranslated,
      m.originalTitle, m.originalDescription>>

\* C3: for a fetched item with a non-default language, the item is handed to
\* the translation client exactly when there is no existing record, or the
\* record has no lastTranslated, or the item's update time is later than the
\* record's lastTranslated, or lastTranslated is earlier than now minus the
\* TTL; otherwise the record keeps the translation fields it had.
C3_StalenessDecision ==
    [][ syncPc = "items" =>
          LET id == pendFrom
              item == RemoteItem(id)
              updatedAt == item.time_updated * SecondMs
              decision == \/ id \notin DOMAIN mods
                          \/ mods[id].lastTranslated = NoDate
                          \/ updatedAt > mods[id].lastTranslated
                          \/ mods[id].lastTranslated < now - TtlMs
          IN  (item.result = 1 /\ DetectLanguage(item.chars) # "en") =>
                 /\ decision <=> id \in SentIds'
                 /\ ~decision =>
                       /\ id \in DOMAIN mods'
                       /\ TranslationFields(mods'[id]) = TranslationFields(mods[id])
      ]_vars

\* a second pass translated one item again and carried the translation of
\* another one over
C3_Witness ==
    /\ PassDone
    /\ pass.n = 2
    /\ sent # {}
    /\ \E i \in 1..Len(synced) :
          /\ synced[i].id \notin SentIds
          /\ synced[i].language # "en"
          /\ synced[i].lastTranslated # NoDate
          /\ synced[i].translatedTitle # None

\* the second of two passes in a row has processed its last item
SecondPassInARow ==
    /\ pass.n = 2
    /\ syncPc = "fetch"
    /\ batchStart >= nIds
    /\ prevPass.n = 1
    /\ prevPass.undisturbed
    /\ pass.t - prevPass.t < TtlMs

\* C4: a second pass in a row, less than the TTL after the first, with no
\* change on the remote side and no failure in either pass, leaves the
\* table as the first pass left it and makes no remote translation call.
C4_SyncTwiceIdempotent ==
    (/\ SecondPassInARow
     /\ prevPass.clean
     /\ pass.mode = "up"
     /\ FailedBatches(errors) = 0)
        => /\ mods = prevPass.mods
           /\ Len(callLog) = pass.calls

\* C5: a pass attempts every batch whatever the outcome of the others; the
\* errors hold one batch entry for each failed fetch and nothing else about
\* the identifiers of a failed batch, and the output holds, in order, the
\* items of the fetched batches that Steam reported with result 1.
C5_BatchFailureIsolated ==
    PassDone =>
        /\ Len(fetchLog) * batchSize >= nIds
        /\ \A k \in 1..Len(fetchLog) : fetchLog[k].index = (k - 1) * batchSize
        /\ \A k \in 1..Len(fetchLog) :
              Cardinality({e \in 1..Len(errors) :
                              errors[e] = [kind |-> "batch", ref |-> fetchLog[k].index]})
                 = IF fetchLog[k].ok THEN 0 ELSE 1
        /\ \A e \in 1..Len(errors) :
              errors[e].kind # "batch" => errors[e].ref \in FetchedIds
        /\ {synced[i].id : i \in 1..Len(synced)} = FetchedIds \ withdrawn
        /\ \A i, j \in 1..Len(synced) : i < j => synced[i].id < synced[j].id

\* three batches, the fetch of the second failed: the items of the first and
\* the third are in the output and the one error is that of the second
C5_Witness ==
    /\ PassDone
    /\ Len(fetchLog) = 3
    /\ fetchLog[1].ok /\ ~fetchLog[2].ok /\ fetchLog[3].ok
    /\ errors = <<[kind |-> "batch", ref |-> batchSize]>>
    /\ {synced[i].id : i \in 1..Len(synced)} = (1..batchSize) \cup {2 * batchSize + 1}

\* C6: when the backend calls for an item's title and description fail, the
\* record that is saved has no translatedTitle and no translatedDescription,
\* its lastTranslated is what it was before, and the staleness rule asks
\* for the item's translation again.
C6_FailedTranslationLeftUntranslated ==
    [][ (/\ syncPc = "items"
         /\ \E c \in sent' : c.id = pendFrom /\ c.failed = {"title", "description"})
          => /\ pendFrom \in DOMAIN mods'
             /\ mods'[pendFrom].translatedTitle = None
             /\ mods'[pendFrom].translatedDescription = None
             /\ mods'[pendFrom].lastTranslated =
                    (IF pendFrom \in DOMAIN mods THEN mods[pendFrom].lastTranslated
                     ELSE NoDate)
             /\ ShouldTranslateMod(MapWorkshopItemToMod(RemoteItem(pendFrom)),
                                   DbGetMod(mods', pendFrom), now')
      ]_vars

\* C7: the errors of a pass hold one entry for every failed batch, one for
\* every item that Steam reported with a result other than 1, and one for
\* every item whose translation failed.
C7_OneErrorPerFailure ==
    PassDone =>
        /\ \A k \in 1..Len(fetchLog) :
              ~fetchLog[k].ok =>
                 Cardinality({e \in 1..Len(errors) :
                                 errors[e] = [kind |-> "batch", ref |-> fetchLog[k].index]}) = 1
        /\ \A id \in FetchedIds \cap withdrawn :
              Cardinality({e \in 1..Len(errors) :
                              errors[e].kind # "batch" /\ errors[e].ref = id}) = 1
        /\ \A c \in sent :
              c.failed # {} =>
                 Cardinality({e \in 1..Len(errors) :
                                 errors[e].kind # "batch" /\ errors[e].ref = c.id}) = 1

\* C13: an existing translation whose lastTranslated is exactly now minus the
\* TTL, of an item not updated since that translation, is treated as expired:
\* the item is handed to the translation client again in the pass.
C13_BoundaryTreatedAsExpired ==
    [][ syncPc = "items" =>
          LET id == pendFrom
              item == RemoteItem(id)
          IN  ( /\ item.result = 1
                /\ DetectLanguage(item.chars) # "en"
                /\ id \in DOMAIN mods
                /\ mods[id].lastTranslated # NoDate
                /\ mods[id].lastTranslated = now - TtlMs
                /\ item.time_updated * SecondMs <= mods[id].lastTranslated )
              => id \in SentIds'
      ]_vars

\* every batch fetch of the pass failed
NoEndpointReached ==
    /\ fetchLog # << >>
    /\ \A k \in 1..Len(fetchLog) : ~fetchLog[k].ok

\* scanAndSyncLocalMods has thrown to its caller
PassRaised == syncPc = "raised"

\* C15: the pass raises to its caller exactly when the local enumeration
\* failed or every batch fetch failed; in every other case it returns a
\* result.
C15_RaisesIffTotalFailure ==
    /\ PassRaised => (~pass.scanned \/ NoEndpointReached)
    /\ PassDone => (pass.scanned /\ ~NoEndpointReached)

\* the backend has answered a translation call of this pass with status 456
QuotaSignalled ==
    /\ pass.mode = "quota"
    /\ \E c \in sent : c.failed # {}

\* C16: once the backend has answered 456 for one item of a pass, no further
\* translation call is made for the remaining items of that pass.
C16_QuotaStopsTranslations ==
    [][ (syncPc = "items" /\ QuotaSignalled) => callLog' = callLog ]_vars

(***************************************************************************)
(* Claims about the stored records (SpecCatalog)                           *)
(***************************************************************************)
\* C17: every record of the mods table that has a translatedTitle has an
\* originalTitle, whatever sequence of sync passes, lookups, update checks
\* and translation refreshes has run.
C17_OriginalKeptWithTranslation ==
    \A id \in DOMAIN mods :
        Truthy(mods[id].translatedTitle) => Truthy(mods[id].originalTitle)

\* a refresh has translated a stored record again and the record still has
\* the original title it was first translated from
C17_Witness ==
    /\ last.op = "refreshModTranslations"
    /\ last.n > 0
    /\ \E id \in DOMAIN mods :
          /\ Truthy(mods[id].translatedTitle)
          /\ mods[id].lastTranslated = now
          /\ mods[id].originalTitle = mods[id].title

\* C18: a record that Steam reports with a result other than 1 is never
\* saved in the mods table, by a sync pass, a lookup or an update check.
C18_ResultNotOneNeverSaved ==
    DOMAIN mods \cap withdrawn = {}

(***************************************************************************)
(* SpecStore: the translations table under the calls of Database.          *)
(* saveTranslation hands one INSERT OR REPLACE statement to sqlite3; the   *)
(* statements of callers that do not wait for each other run one at a      *)
(* time, in any order.                                                     *)
(***************************************************************************)
\* the translated texts the callers store
StoreValues == {"A", "B"}

\* a little later the day the rows written at the start expire, and a day
StoreTicks == {TRANSLATION_CACHE_TTL_DAYS * DayMs + StdTTLMs, DayMs}

InitStore ==
    /\ InitClient
    /\ hasDatabase

\* the key of the statement is that of the row
SameKeyAs(tr, row) == SameKey(row, tr.originalText, tr.sourceLang, tr.targetLang)

\* Database.saveTranslation is called with the row of a request that names
\* no source language: the statement is handed to sqlite3
SaveTranslationCall ==
    /\ ops < MaxStoreOps
    /\ Cardinality(inflight) < MaxInflight
    /\ \E text \in Texts, value \in StoreValues :
          LET tr == CachedTranslationOf(
                        [text |-> text, sourceLang |-> None, targetLang |-> "en"],
                        [translatedText |-> value, detectedLanguage |-> None], now)
          IN  /\ inflight' = inflight \cup
                     {[call |-> ops, tr |-> tr,
                       overlaps |-> \E o \in inflight : SameKey(RowOf(o.tr), tr.originalText,
                                                                tr.sourceLang, tr.targetLang)]}
              /\ last' = [op |-> "saveTranslation", tr |-> tr]
    /\ ops' = ops + 1
    /\ UNCHANGED <<now, limiterVars, callLog, lastWait, lag, paceVars, memCache, translations,
                   hasDatabase, reqs, syncVars>>

\* sqlite3 runs one of the waiting statements
SaveTranslationRun ==
    /\ \E s \in inflight :
          /\ translations' = SaveTranslation(translations, s.tr)
          /\ inflight' = inflight \ {s}
          /\ last' = [op |-> "saved", tr |-> s.tr, overlaps |-> s.overlaps,
                      replaced |-> \E i \in 1..Len(translations) :
                                      SameKeyAs(s.tr, translations[i])]
    /\ UNCHANGED <<now, limiterVars, callLog, lastWait, lag, paceVars, memCache, hasDatabase,
                   reqs, ops, syncVars>>

\* Database.getTranslation
GetTranslationCall ==
    /\ ops < MaxStoreOps
    /\ \E text \in Texts :
          last' = [op |-> "getTranslation",
                   result |-> GetTranslation(translations, text, Auto, "en", now)]
    /\ ops' = ops + 1
    /\ UNCHANGED <<now, limiterVars, callLog, lastWait, lag, paceVars, cacheVars, syncVars>>

\* Database.cleanExpiredTranslations
CleanExpiredTranslationsCall ==
    /\ ops < MaxStoreOps
    /\ translations' = CleanExpiredTranslations(translations, now)
    /\ last' = [op |-> "cleanExpiredTranslations"]
    /\ ops' = ops + 1
    /\ UNCHANGED <<now, limiterVars, callLog, lastWait, lag, paceVars, memCache, hasDatabase,
                   inflight, reqs, syncVars>>

StoreTick ==
    /\ ops < MaxStoreOps
    /\ \E d \in StoreTicks : now + d <= MaxClock /\ now' = now + d
    /\ last' = [op |-> "tick"]
    /\ ops' = ops + 1
    /\ UNCHANGED <<limiterVars, callLog, lastWait, lag, paceVars, cacheVars, syncVars>>

NextStore ==
    \/ SaveTranslationCall \/ SaveTranslationRun \/ GetTranslationCall
    \/ CleanExpiredTranslationsCall \/ StoreTick

SpecStore == InitStore /\ [][NextStore]_vars

(***************************************************************************)
(* Claims about the translations table (SpecStore)                         *)
(***************************************************************************)
\* no two rows of the table have the same key
OneRowPerKey(db) ==
    \A i, j \in 1..Len(db) :
        SameKey(db[i], db[j].originalText, db[j].sourceLang, db[j].targetLang) => i = j

\* C19: the translations table never holds two rows with the same
\* (originalText, sourceLang, targetLang); when a saveTranslation statement
\* has run, in whatever order the waiting statements run, the one row of its
\* key holds its text and its expiry.
C19_OneRowPerKey ==
    [][ /\ OneRowPerKey(translations')
        /\ \A s \in inflight \ inflight' :
              \E i \in 1..Len(translations') :
                 /\ SameKeyAs(s.tr, translations'[i])
                 /\ translations'[i].translatedText = s.tr.translatedText
                 /\ translations'[i].exp = s.tr.expiresAt
      ]_vars

\* two statements for the same key waited together; both have run and the
\* second replaced the row of the first
C19_Witness ==
    /\ last.op = "saved"
    /\ last.overlaps
    /\ last.replaced
    /\ inflight = {}
    /\ Cardinality({i \in 1..Len(translations) : SameKeyAs(last.tr, translations[i])}) = 1

\* C20: getTranslation returns a row only if its expiry is later than the
\* time of the call.
C20_LookupOnlyUnexpired ==
    (last.op = "getTranslation" /\ last.result # Absent) => last.result.expiresAt > now

(***************************************************************************)
(* SpecRace: calls of translate and translateBatch whose callers do not    *)
(* wait for each other: requests of POST /translate, and the calls that    *)
(* translateModContent makes for the item a sync pass is processing.  The  *)
(* code of a call runs without interruption from one await to the next;    *)
(* the steps below are those stretches.  The service is the one the        *)
(* application constructs, without a Database.                             *)
(***************************************************************************)
\* calls started in one run
MaxRaceCalls == 3
RaceIds == 1..MaxRaceCalls
\* Date.now() when the run starts
RaceStart == DayMs + 10 * StdTTLMs
\* time that passes while no timer is due, and for how long it is followed
RaceStep == 400
RaceHorizon == RaceStep
\* the texts of the requests of POST /translate
RaceTexts == {"title"}

\* lines 366-373: the interval wait, or the counters are incremented and the
\* caller goes on to its remote call
IntervalCheck(rl, t, tslr) ==
    IF IntervalTooShort(tslr)
    THEN [rl |-> rl, pc |-> "interval", wake |-> t + (MIN_REQUEST_INTERVAL - tslr)]
    ELSE [rl |-> [rl EXCEPT !.last = t, !.cpm = @ + 1, !.cps = @ + 1],
          pc |-> "remote", wake |-> 0]

\* lines 356-363
MinuteCheck(rl, t, tslr) ==
    IF MinuteLimitReached(rl.cpm) /\ (MinuteMs - tslr) > 0
    THEN [rl |-> rl, pc |-> "minute", wake |-> t + (MinuteMs - tslr)]
    ELSE IntervalCheck(rl, t, tslr)

\* lines 347-353
SecondCheck(rl, t, tslr) ==
    IF SecondLimitReached(rl.cps)
    THEN [rl |-> rl, pc |-> "second", wake |-> t + (SecondMs - (t % SecondMs))]
    ELSE MinuteCheck(rl, t, tslr)

\* lines 331-344 and what follows up to the first timer: a caller enters
\* waitForRateLimit at time t
EnterRateLimit(rl, t) ==
    LET tslr == t - rl.last
        roll == SecondRollover(t, rl.sec)
        rl0 == [rl EXCEPT !.sec = IF roll THEN t \div SecondMs ELSE @,
                          !.cps = IF roll THEN 0 ELSE @,
                          !.cpm = IF MinuteRollover(tslr) THEN 0 ELSE @]
        Entered(e) == [rl |-> e.rl, pc |-> e.pc, wake |-> e.wake, tslr |-> tslr]
    IN  Entered(SecondCheck(rl0, t, tslr))

ResumeRateLimit_WaitsOn(rl, t, pc, tslr) == [rl |-> rl, pc |-> pc, wake |-> t]

\* the caller's timer fired at time t: lines 351-352, 361 or 371-373, with the
\* timeSinceLastRequest the caller computed when it entered
ResumeRateLimit(rl, t, pc, tslr) ==
    IF pc = "second"
    THEN MinuteCheck([rl EXCEPT !.sec = t \div SecondMs, !.cps = 0], t, tslr)
    ELSE IF pc = "minute"
    THEN IntervalCheck([rl EXCEPT !.cpm = 0], t, tslr)
    ELSE IntervalCheck(rl, t, MIN_REQUEST_INTERVAL)

\* a call that has returned or thrown
Returned(req, ok) ==
    [req EXCEPT !.pc = "done", !.ok = ok, !.wake = 0, !.tslr = 0, !.attempt = 0,
                !.texts = << >>]

\* the calls in progress and what they share, as a record the steps update
RaceState == [mem |-> memCache, rl |-> Limiter, reqs |-> reqs, log |-> callLog, n |-> ops]

WithReq(st, req) ==
    [st EXCEPT !.n = @ + 1,
               !.reqs = [p \in DOMAIN st.reqs \cup {st.n + 1} |->
                            IF p = st.n + 1 THEN req ELSE st.reqs[p]]]

\* a caller reaches waitForRateLimit (lines 420 and 602)
Limited(st, kind, origin, texts, t) ==
    LET e == EnterRateLimit(st.rl, t)
        called == e.pc = "remote"
    IN  WithReq([st EXCEPT !.rl = e.rl,
                           !.log = IF called THEN Append(@, t) ELSE @],
                [pc |-> e.pc, kind |-> kind, origin |-> origin, texts |-> texts,
                 tslr |-> e.tslr, wake |-> e.wake, attempt |-> 0,
                 calls |-> IF called THEN 1 ELSE 0, ok |-> FALSE])

\* translate, lines 275-312, up to its first await
BeginTranslate(st, text, origin, t) ==
    LET key == CacheKey(text, None, "en")
        st0 == [st EXCEPT !.mem = MemAfterGet(@, key, t)]
    IN  IF MemGet(st.mem, key, t) # Absent                               \* line 283
        THEN WithReq(st0, [pc |-> "done", kind |-> "translate", origin |-> origin,
                           texts |-> << >>, tslr |-> 0, wake |-> 0, attempt |-> 0,
                           calls |-> 0, ok |-> TRUE])
        ELSE Limited(st0, "translate", origin, <<text>>, t)

\* translateBatch, lines 558-602, up to its first await
BeginBatch(st, texts, origin, t) ==
    LET idx == 1..Len(texts)
        keys == [i \in idx |-> CacheKey(texts[i], None, "en")]
        expired == {keys[i] : i \in {j \in idx : keys[j] \in DOMAIN st.mem
                                                  /\ ~MemLive(st.mem, keys[j], t)}}
        st0 == [st EXCEPT !.mem = [k \in DOMAIN st.mem \ expired |-> st.mem[k]]]
    IN  IF \A i \in idx : MemGet(st.mem, keys[i], t) # Absent            \* line 579
        THEN WithReq(st0, [pc |-> "done", kind |-> "batch", origin |-> origin,
                           texts |-> << >>, tslr |-> 0, wake |-> 0, attempt |-> 0,
                           calls |-> 0, ok |-> TRUE])
        ELSE Limited(st0, "batch", origin, texts, t)

\* translateModContent, lines 516-519: the batch call has thrown and the two
\* translate calls of the fallback are started one after the other, neither
\* waiting for the other
BeginFallback(st, texts, t) ==
    BeginTranslate(BeginTranslate(st, texts[1], "sync", t), texts[2], "sync", t)

\* the answers of the backend to a call
RaceAnswers(kind) ==
    IF kind = "batch"
    THEN {[status |-> 200, items |-> <<[text |-> "A", detected |-> "ZH"],
                                       [text |-> "D", detected |-> "ZH"]>>],
          ErrAnswer(429)}
    ELSE {OkAnswer("A", "ZH"), ErrAnswer(429)}

\* the limiter in one of the situations the calls of a run can find it in:
\* untouched; after 49 calls made one second apart, the last one just now;
\* after 45 callers that waited for the same interval made their calls just
\* now, one second after the call they waited for
RaceSituations ==
    { [rl |-> [last |-> 0, cpm |-> 0, cps |-> 0, sec |-> 0], log |-> << >>],
      [rl |-> [last |-> RaceStart, cpm |-> MAX_REQUESTS_PER_MINUTE - 1, cps |-> 1,
               sec |-> RaceStart \div SecondMs],
       log |-> [i \in 1..(MAX_REQUESTS_PER_MINUTE - 1) |->
                   RaceStart - (MAX_REQUESTS_PER_MINUTE - 1 - i) * MIN_REQUEST_INTERVAL]],
      [rl |-> [last |-> RaceStart, cpm |-> MAX_REQUESTS_PER_SECOND + 1,
               cps |-> MAX_REQUESTS_PER_SECOND, sec |-> RaceStart \div SecondMs],
       log |-> [i \in 1..(MAX_REQUESTS_PER_SECOND + 1) |->
                   IF i = 1 THEN RaceStart - MIN_REQUEST_INTERVAL ELSE RaceStart]] }

InitRace ==
    /\ now = RaceStart
    /\ \E s \in RaceSituations :
          /\ lastRequestTime = s.rl.last
          /\ requestCountPerMinute = s.rl.cpm
          /\ requestCountPerSecond = s.rl.cps
          /\ lastSecondTimestamp = s.rl.sec
          /\ callLog = s.log
    /\ lastWait = NoWait
    /\ pace = 0
    /\ lag = 0
    /\ idled = FALSE
    /\ memCache = << >>
    /\ translations = << >>
    /\ hasDatabase = FALSE
    /\ inflight = {}
    /\ reqs = NoReqs
    /\ last = [op |-> "none"]
    /\ ops = 0
    /\ SyncIdle

\* the variables the steps of a call may change take their values from st
RaceUpdate(st) ==
    /\ memCache' = st.mem
    /\ lastRequestTime' = st.rl.last
    /\ requestCountPerMinute' = st.rl.cpm
    /\ requestCountPerSecond' = st.rl.cps
    /\ lastSecondTimestamp' = st.rl.sec
    /\ reqs' = st.reqs
    /\ callLog' = st.log
    /\ ops' = st.n
    /\ UNCHANGED <<now, lastWait, lag, paceVars, translations, hasDatabase, inflight, last,
                   syncVars>>

Sleeping(p) == p \in DOMAIN reqs /\ reqs[p].pc \in {"second", "minute", "interval", "backoff"}

\* a translateModContent call of the sync pass has not returned
SyncBusy == \E p \in DOMAIN reqs : reqs[p].origin = "sync" /\ reqs[p].pc # "done"

\* the calls a batch call of the sync pass may still have to start
Reserved ==
    IF \E p \in DOMAIN reqs : /\ reqs[p].origin = "sync" /\ reqs[p].kind = "batch"
                              /\ reqs[p].pc # "done"
    THEN 2 ELSE 0

\* routes/translation.ts, lines 7-32: a request of POST /translate arrives
RouteTranslate ==
    /\ ops + 1 + Reserved <= MaxRaceCalls
    /\ \E text \in RaceTexts : RaceUpdate(BeginTranslate(RaceState, text, "route", now))

\* ModService.translateMod, line 201: the sync pass calls translateModContent
\* for the item it is processing, which calls translateBatch (line 505)
SyncTranslateModContent ==
    /\ ~SyncBusy
    /\ ops + 3 <= MaxRaceCalls
    /\ RaceUpdate(BeginBatch(RaceState, BatchTexts, "sync", now))

\* a timer of waitForRateLimit or of retryWithBackoff fires
TimerFires(p) ==
    /\ Sleeping(p)
    /\ reqs[p].wake <= now
    /\ LET req == reqs[p]
           Put(st, r) == [st EXCEPT !.reqs = [st.reqs EXCEPT ![p] = r]]
           Again ==                                                      \* line 386
               Put([RaceState EXCEPT !.log = Append(@, now)],
                   [req EXCEPT !.pc = "remote", !.calls = @ + 1, !.wake = 0])
           Resumed(e) ==
               Put([RaceState EXCEPT !.rl = e.rl,
                                     !.log = IF e.pc = "remote" THEN Append(@, now) ELSE @],
                   [req EXCEPT !.pc = e.pc, !.wake = e.wake,
                               !.calls = IF e.pc = "remote" THEN @ + 1 ELSE @])
       IN  IF req.pc = "backoff"
           THEN RaceUpdate(Again)
           ELSE RaceUpdate(Resumed(ResumeRateLimit(Limiter, now, req.pc, req.tslr)))

\* the backend answers the call of p
BackendAnswers(p) ==
    /\ p \in DOMAIN reqs
    /\ reqs[p].pc = "remote"
    /\ \E answer \in RaceAnswers(reqs[p].kind) :
          LET req == reqs[p]
              batch == req.kind = "batch"
              r == IF batch THEN BatchOperation(answer) ELSE Operation(answer)
              keys == [i \in 1..Len(req.texts) |-> CacheKey(req.texts[i], None, "en")]
              mem1 == IF batch                                   \* lines 315 and 631
                      THEN MemSetMany(memCache, keys, answer.items, r.cached, now)
                      ELSE IF r.ok THEN MemSet(memCache, keys[1], r.value, now)
                      ELSE memCache
              Put(st, q) == [st EXCEPT !.reqs = [st.reqs EXCEPT ![p] = q]]
              st1 == [RaceState EXCEPT !.mem = mem1]
          IN  IF r.ok
              THEN RaceUpdate(Put(st1, Returned(req, TRUE)))
              ELSE IF GiveUp(r.error, req.attempt)                       \* line 392
              THEN IF batch /\ req.origin = "sync"                       \* line 512
                   THEN RaceUpdate(BeginFallback(Put(st1, Returned(req, FALSE)),
                                                 BatchTexts, now))
                   ELSE RaceUpdate(Put(st1, Returned(req, FALSE)))
              ELSE RaceUpdate(Put(st1,                                   \* lines 397-399
                       [req EXCEPT !.pc = "backoff", !.attempt = @ + 1,
                                   !.wake = now + BASE_DELAY * Pow2(req.attempt)]))

\* the clock reaches the time of the timer that is due first
TimePassesToTimer ==
    /\ \E p \in RaceIds : Sleeping(p)
    /\ \A p \in RaceIds : Sleeping(p) => reqs[p].wake > now
    /\ \E p \in RaceIds :
          /\ Sleeping(p)
          /\ \A q \in RaceIds : Sleeping(q) => reqs[p].wake <= reqs[q].wake
          /\ now' = reqs[p].wake
    /\ UNCHANGED <<limiterVars, callLog, lastWait, lag, paceVars, cacheVars, clientVars,
                   syncVars>>

\* a little time passes and no timer becomes due
TimePasses ==
    /\ now + RaceStep <= RaceStart + RaceHorizon
    /\ \A p \in RaceIds : Sleeping(p) => reqs[p].wake >= now + RaceStep
    /\ now' = now + RaceStep
    /\ UNCHANGED <<limiterVars, callLog, lastWait, lag, paceVars, cacheVars, clientVars,
                   syncVars>>

NextRace ==
    \/ RouteTranslate
    \/ SyncTranslateModContent
    \/ \E p \in RaceIds : TimerFires(p)
    \/ \E p \in RaceIds : BackendAnswers(p)
    \/ TimePassesToTimer
    \/ TimePasses

SpecRace == InitRace /\ [][NextRace]_vars

\* timers fire when they are due, the clock runs, and the backend answers
\* every call
SpecRaceFair ==
    /\ SpecRace
    /\ WF_vars(\E p \in RaceIds : TimerFires(p))
    /\ WF_vars(\E p \in RaceIds : BackendAnswers(p))
    /\ WF_vars(TimePassesToTimer)

(***************************************************************************)
(* Further claims about the sync orchestrator (SpecSync)                   *)
(***************************************************************************)
\* the identifiers of the k-th fetch of the pass
SliceOf(k) == (fetchLog[k].ids.from)..(fetchLog[k].ids.to)

\* C23: a pass over n identifiers makes ceil(n / 100) fetch calls, each with
\* at most 100 identifiers, the calls carrying consecutive slices that cover
\* every identifier exactly once; with no identifier it makes no call and
\* returns an empty result.
C23_FetchesInBatches ==
    PassDone =>
        /\ Len(fetchLog) = (nIds + batchSize - 1) \div batchSize
        /\ \A k \in 1..Len(fetchLog) :
              /\ SliceOf(k) # {}
              /\ Cardinality(SliceOf(k)) <= batchSize
              /\ fetchLog[k].ids.from = IF k = 1 THEN 1 ELSE fetchLog[k - 1].ids.to + 1
        /\ UNION {SliceOf(k) : k \in 1..Len(fetchLog)} = 1..nIds
        /\ nIds = 0 => (fetchLog = << >> /\ synced = << >> /\ errors = << >>)

\* 150 identifiers were fetched in two calls of 100 and 50
C23_Witness ==
    /\ PassDone
    /\ nIds = 150
    /\ Len(fetchLog) = 2
    /\ Cardinality(SliceOf(1)) = 100
    /\ Cardinality(SliceOf(2)) = 50

(***************************************************************************)
(* Further claims about the translation client (SpecClient)                *)
(***************************************************************************)
\* the request of this step repeats the one made before the restart, which
\* translate answered from the backend; the Database raised in neither
RepeatsStoredRequest ==
    /\ last'.op = "translate" /\ ops' = ops + 1 /\ last'.fault = "none"
    /\ last.op = "restart" /\ last.before.op = "translate"
    /\ last.before.ok /\ last.before.source = "backend" /\ last.before.fault = "none"
    /\ last'.request = last.before.request
    /\ hasDatabase
    /\ memCache = << >>

\* C29: a translation that translate obtained from the backend and wrote to
\* the translations table is found there by the same request made again
\* once the memory cache is empty: the repeated request makes no remote
\* call.
C29_StoredTranslationFoundAgain ==
    [][ RepeatsStoredRequest => callLog' = callLog ]_vars

\* the step is a translate request whose remote call succeeded while the
\* write of the row to the translations table raised
StoreWriteFailed ==
    /\ last'.op = "translate" /\ ops' = ops + 1
    /\ hasDatabase /\ last'.fault = "saveTranslation"
    /\ last'.calls >= 1
    /\ last'.script[last'.calls].status = 200
    /\ last'.script[last'.calls].items # << >>
    /\ last'.script[last'.calls].items[1].text # ""

\* the step repeats the request of a step that was StoreWriteFailed, while the
\* memory entry written by that step has not reached its one-hour expiry
RepeatsAfterFailedWrite ==
    /\ last.op = "translate" /\ last.fault = "saveTranslation"
    /\ last.source = "backend" /\ last.ok
    /\ last'.op = "translate" /\ ops' = ops + 1
    /\ last'.request = last.request

C22_LookupErrorDegradesToMemoryOnly ==
    [][ ( /\ last'.op = "translate" /\ ops' = ops + 1
          /\ hasDatabase /\ last'.fault = "getTranslation"
          /\ ~MemLive(memCache, CacheKey(last'.request.text, last'.request.sourceLang,
                                         last'.request.targetLang), now)
          /\ last'.script[1].status = 200
          /\ last'.script[1].items # << >>
          /\ last'.script[1].items[1].text # "" )
        => (last'.ok /\ last'.source = "backend" /\ last'.calls = 1)
      ]_vars

\* the step is a translate or translateBatch request that called the backend
\* and ended in failure
RemoteAttemptFailed ==
    /\ last'.op \in {"translate", "batch"} /\ ops' = ops + 1
    /\ last'.calls >= 1
    /\ ~last'.ok

\* C27: a remote attempt that ends in failure, in translate or in
\* translateBatch, leaves both cache tiers without a new or changed entry,
\* and the attempt is counted by the rate limiter.
C27_FailedAttemptTouchesNoCache ==
    [][ RemoteAttemptFailed =>
          /\ \A k \in DOMAIN memCache' :
                k \in DOMAIN memCache /\ memCache'[k] = memCache[k]
          /\ translations' = translations
          /\ lastRequestTime' = callLog'[Len(callLog')]
          /\ requestCountPerSecond' >= 1
          /\ requestCountPerMinute' >= 1
      ]_vars

(***************************************************************************)
(* Further claims about the sync orchestrator under Database errors        *)
(***************************************************************************)
\* the record with which the step processes the next item of the batch
ItemInHand == MapWorkshopItemToMod(RemoteItem(pendFrom))

\* C30: an item that a step adds to the synced items was written to the mods
\* table by that step, and an item of result 1 that has no row after its
\* step is not added to the synced items and gets one entry in the errors.
C30_SyncedItemsWereSaved ==
    [][ (syncPc = "items" /\ (synced' # synced \/ errors' # errors)) =>
          /\ synced' # synced =>
                /\ Len(synced') = Len(synced) + 1
                /\ mods' = SaveMod(mods, synced'[Len(synced')])
          /\ (RemoteItem(pendFrom).result = 1 /\ ItemInHand.id \notin DOMAIN mods') =>
                /\ synced' = synced
                /\ Len(errors') = Len(errors) + 1
      ]_vars

(***************************************************************************)
(* Claims about callers that do not wait for each other (SpecRace)         *)
(***************************************************************************)
\* the remote calls of log that started in the w ms up to and including the
\* start of call i
StartedUpTo(log, i, w) == Cardinality({j \in 1..i : log[i] - log[j] < w})

\* C24: under every interleaving of concurrent requests, each remote call
\* starts at least 1000 ms after the call before it, is at most the 45th of
\* its second and at most the 50th of its minute.
C24_LimitsHoldUnderConcurrency ==
    [][ \A i \in (Len(callLog) + 1)..Len(callLog') :
          /\ i > 1 => callLog'[i] - callLog'[i - 1] >= MIN_REQUEST_INTERVAL
          /\ StartedUpTo(callLog', i, SecondMs) <= MAX_REQUESTS_PER_SECOND
          /\ StartedUpTo(callLog', i, MinuteMs) <= MAX_REQUESTS_PER_MINUTE
      ]_vars

\* the calls of the sync pass that have not returned
SyncInFlight == {p \in DOMAIN reqs : reqs[p].origin = "sync" /\ reqs[p].pc # "done"}

\* C25: at any time at most one call of the sync pass to the translation
\* client has not returned, also after a translation attempt has failed.
C25_OneSyncCallInFlight == Cardinality(SyncInFlight) <= 1

\* a call has started and has not returned
SomeInProgress == \E p \in DOMAIN reqs : reqs[p].pc # "done"

\* every call that started has returned or thrown, after at most 1 + 3
\* remote attempts
AllReturned ==
    \A p \in DOMAIN reqs : reqs[p].pc = "done" /\ reqs[p].calls <= 1 + MAX_RETRIES

\* C26: every call of translate or translateBatch returns or throws when the
\* backend answers each remote call: its waits for rate budget end and it
\* goes on to the remote call, and it has made at most 1 + 3 remote attempts
\* when it returns.
C26_EveryRequestTerminates == SomeInProgress ~> AllReturned

\* the call that had to wait for the per-minute budget has made its remote
\* call, most of a minute after the run started, and every call has returned
C26_Witness ==
    /\ reqs # NoReqs
    /\ AllReturned
    /\ callLog # << >>
    /\ callLog[Len(callLog)] - RaceStart >= MinuteMs - MIN_REQUEST_INTERVAL

====
